---- MODULE Spec2Model ----
(***************************************************************************)
(* Job scheduling core of one-prompt-agents: the job store JOBS, the       *)
(* asyncio job queue, the chat_worker pool, the autonomous_chat loop and   *)
(* the MCPAgent tools that submit jobs (chat_patterns.py, mcp_agent.py).   *)
(*                                                                         *)
(* Everything runs on one asyncio event loop, so the code between two      *)
(* awaits that really suspend is one atomic step.  The job queue is an     *)
(* unbounded asyncio.Queue (main.py:164), whose put never suspends: a      *)
(* whole submit_job call and a whole _start_and_wait call are one step.    *)
(* The worker suspends in queue.get, in connect_mcps and in Runner.run.    *)
(***************************************************************************)
EXTENDS Naturals, Sequences, FiniteSets, TLC

\* ---------------------------------------------------------------- bounds
\* Number of job ids the store may hold (uuid tails are modelled as 1..MaxJobs).
MaxJobs == 3
\* Number of chat workers (main.py starts NUM_WORKERS of them).
NumWorkers == 2
\* max_turns handed to autonomous_chat (chat_worker passes 30).
MaxTurns == 2

JobIds == 1..MaxJobs
Workers == 1..NumWorkers
\* A your_job_id that names no job of the store.
NoJob == 0

VARIABLES
  JOBS,     \* chat_patterns.JOBS: job_id -> Job (status, depends_on, chat_history)
  queue,    \* the asyncio.Queue of jobs, as the sequence of their ids
  delayed,  \* job_id -> number of requeue_later tasks still sleeping for it
  worker,   \* per chat_worker: where it is suspended and its local variables
  unfinished, \* the queue's count of unfinished tasks (put adds 1, task_done takes 1)
  ret,      \* the _start_and_wait call made by the last step, if it was one:
            \* its your_job_id (arg), what it returned (kind) and the child's id (job)
  configs,  \* agents_loader: the configs dict, as the sequence of its items
  order,    \* agents_loader: what topo_sort(configs) gave, once it was called
  static_servers, \* main: the names of the static (external) MCP servers
  loaded,   \* agents_loader: what load_agents gave, once it was called
  plan_dict, \* PlanWatcherStrategy.plan_dict of one strategy instance
  turn,     \* the last next_turn call on a strategy: its arguments and result
  summary,  \* job_id -> Job.summary
  mcp       \* one connect_mcps call: its position and the calls it has made

vars == <<JOBS, queue, delayed, worker, unfinished, ret,
          configs, order, static_servers, loaded, plan_dict, turn, summary,
          mcp>>

\* The start-up state of the agents loader.
loaderVars == <<configs, order, static_servers, loaded>>

\* The state of a strategy instance and of its last call.
strategyVars == <<plan_dict, turn>>

\* The summary field of the jobs.
summaryVars == <<summary>>

\* The state of one connect_mcps call.
mcpVars == <<mcp>>

\* No connect_mcps call has been made.
NoCall ==
  [pc |-> "idle", n |-> 0, retries |-> 0, server |-> 0, attempt |-> 0,
   log |-> <<>>, error |-> [server |-> 0, attempt |-> 0]]

\* The result of a next_turn call: (end, None) when none, else (end, the
\* sentences joined into the message).
Result(end, none, msg) == [end |-> end, none |-> none, msg |-> msg]
\* No next_turn call has been made on the instance.
NoTurn == [strategy |-> "none", status |-> "none", plan |-> <<>>, prev |-> <<>>,
           out |-> Result(FALSE, TRUE, <<>>)]

\* ------------------------------------------------------- history entries
\* A role-tagged message {"role": r, "content": c}; job is the job id the
\* content embeds (0 when it embeds none).
Msg(r, c, j) == [kind |-> "msg", role |-> r, content |-> c, job |-> j]
\* A bare one-character str sitting in the list (no role tag).
Chr(c) == [kind |-> "char", role |-> "none", content |-> c, job |-> 0]

Digits == <<"0", "1", "2", "3", "4", "5", "6", "7", "8", "9">>
\* The 6-character job_id string of job j.
IdStr(j) == <<"0", "0", "0", "0", "0", Digits[(j % 10) + 1]>>

\* f"Job {job_id} has been started.\n" as the sequence of its characters.
NoteChars(j) ==
  <<"J", "o", "b", " ">> \o IdStr(j) \o
  <<" ", "h", "a", "s", " ", "b", "e", "e", "n", " ",
    "s", "t", "a", "r", "t", "e", "d", ".", "\n">>

\* The list after  chat_history += <str> : a list extended by a str gets one
\* element per character of the str.
ExtendWithStr(history, chars) ==
  history \o [i \in 1..Len(chars) |-> Chr(chars[i])]

\* ------------------------------------------------------------- job store
\* Job(...) as submit_job constructs it.
Job(depends_on) ==
  [status |-> "in_queue", depends_on |-> depends_on, chat_history |-> <<>>]

\* The id submit_job allocates, for runs in which uuid4 tails never repeat: the
\* next unused id.  The allocation itself is the subject of UuidSpec below.
NewJobId(store) == Cardinality(DOMAIN store) + 1

\* A get_done_jobs that counts a failed job as finished.
get_done_jobs_or_error ==
  {j \in DOMAIN JOBS : JOBS[j].status \in {"done", "error"}}

get_done_jobs == {j \in DOMAIN JOBS : JOBS[j].status = "done"}

\* unmet = [dep for dep in job.depends_on if dep not in DONE_JOBS]
Unmet(j) == SelectSeq(JOBS[j].depends_on, LAMBDA d : d \notin get_done_jobs)

\* A submit_job on a store that forgets finished jobs: entries whose status is
\* done are dropped when a job is added.
submit_job_evicting(store, q, depends_on) ==
  LET id == NewJobId(store)
      kept == {j \in DOMAIN store : store[j].status # "done"} \cup {id}
  IN  [id |-> id,
       store |-> [j \in kept |-> IF j = id THEN Job(depends_on) ELSE store[j]],
       queue |-> Append(q, id)]

\* submit_job on a store and a queue: the job enters the store, then the queue.
submit_job(store, q, depends_on) ==
  LET id == NewJobId(store)
  IN  [id |-> id,
       store |-> store @@ (id :> Job(depends_on)),
       queue |-> Append(q, id)]

\* ------------------------------------------------------------ strategies
PlanKinds == {"empty", "unchecked", "checked"}
\* What a Runner.run call does in the scheduling model: it raises, or returns
\* a final_output whose plan has an unchecked step, or one with every step checked.
RunnerOutcomes == {"raise", "unchecked", "checked"}

\* A next_turn without the status test: the plan alone decides.
next_turn_any_status(plan, status) ==
  IF plan = "empty" THEN [end |-> FALSE, msg |-> "plan_empty"]
  ELSE IF plan = "checked" THEN [end |-> TRUE, msg |-> "None"]
  ELSE [end |-> FALSE, msg |-> "continue"]

\* ContinueLastUncheckedStrategy.next_turn, on the plan of final_output and
\* the job's status read fresh from the store.
next_turn(plan, status) ==
  IF status # "in_progress" THEN [end |-> FALSE, msg |-> "None"]
  ELSE IF plan = "empty" THEN [end |-> FALSE, msg |-> "plan_empty"]
  ELSE IF plan = "checked" THEN [end |-> TRUE, msg |-> "None"]
  ELSE [end |-> FALSE, msg |-> "continue"]

\* ---------------------------------------------------------------- workers
Idle == [pc |-> "get", job |-> NoJob, check |-> 0, hist |-> <<>>, msg |-> "None"]

\* turn_input_for_api of the Runner.run call worker w is suspended in.
TurnInput(w) ==
  Append(worker[w].hist, Msg("user", worker[w].msg,
                             IF worker[w].msg = "first" THEN worker[w].job ELSE 0))

\* run_result.to_input_list(): the input followed by the items of the run.
to_input_list(input) == Append(input, Msg("assistant", "output", 0))

\* The last step was no call of a tool.
NoReturn == [kind |-> "none", job |-> NoJob, arg |-> NoJob]

Init ==
  /\ JOBS = <<>>
  /\ queue = <<>>
  /\ delayed = [j \in JobIds |-> 0]
  /\ worker = [w \in Workers |-> Idle]
  /\ unfinished = 0
  /\ ret = NoReturn
  /\ configs = <<>>
  /\ order = <<>>
  /\ static_servers = {}
  /\ loaded = <<>>
  /\ plan_dict = <<>>
  /\ turn = NoTurn
  /\ summary = [j \in JobIds |-> ""]
  /\ mcp = NoCall

\* An external trigger (HTTP /run, the CLI, start_agent_X) calls submit_job.
SubmitJob ==
  /\ Cardinality(DOMAIN JOBS) < MaxJobs
  /\ LET s == submit_job(JOBS, queue, <<>>)
     IN  /\ JOBS' = s.store
         /\ queue' = s.queue
  /\ unfinished' = unfinished + 1
  /\ ret' = NoReturn
  /\ UNCHANGED <<loaderVars, strategyVars, summaryVars, mcpVars>>
  /\ UNCHANGED <<delayed, worker>>

\* A _start_and_wait that re-enqueues the waiter first and submits the child
\* afterwards.
StartAndWaitRequeueFirst(store, q, your_job_id) ==
  LET child == NewJobId(store)
  IN  IF your_job_id \notin DOMAIN store
      THEN [store |-> submit_job(store, q, <<>>).store,
            queue |-> submit_job(store, q, <<>>).queue,
            ret |-> [kind |-> "not_found", job |-> child, arg |-> your_job_id]]
      ELSE LET waiter2 ==
                 [store[your_job_id] EXCEPT
                    !.status = "in_queue",
                    !.depends_on = Append(@, child),
                    !.chat_history = ExtendWithStr(@, NoteChars(child))]
               s == submit_job([store EXCEPT ![your_job_id] = waiter2],
                               Append(q, your_job_id), <<>>)
           IN  [store |-> s.store, queue |-> s.queue,
                ret |-> [kind |-> "started", job |-> child, arg |-> your_job_id]]

\* A _start_and_wait that leaves the waiter's status as it finds it.
StartAndWaitKeepsStatus(store, q, your_job_id) ==
  LET s == submit_job(store, q, <<>>)
      child == s.id
  IN  IF your_job_id \notin DOMAIN s.store
      THEN [store |-> s.store, queue |-> s.queue,
            ret |-> [kind |-> "not_found", job |-> child, arg |-> your_job_id]]
      ELSE LET waiter2 ==
                 [s.store[your_job_id] EXCEPT
                    !.depends_on = Append(@, child),
                    !.chat_history = ExtendWithStr(@, NoteChars(child))]
           IN  [store |-> [s.store EXCEPT ![your_job_id] = waiter2],
                queue |-> Append(s.queue, your_job_id),
                ret |-> [kind |-> "started", job |-> child, arg |-> your_job_id]]

\* A _start_and_wait without the  if not waiter  test: the first use of the
\* missing waiter raises.
StartAndWaitNoTest(store, q, your_job_id) ==
  LET s == submit_job(store, q, <<>>)
      child == s.id
  IN  IF your_job_id \notin DOMAIN s.store
      THEN [store |-> s.store, queue |-> s.queue,
            ret |-> [kind |-> "raised", job |-> child, arg |-> your_job_id]]
      ELSE LET waiter2 ==
                 [s.store[your_job_id] EXCEPT
                    !.status = "in_queue",
                    !.depends_on = Append(@, child),
                    !.chat_history = ExtendWithStr(@, NoteChars(child))]
           IN  [store |-> [s.store EXCEPT ![your_job_id] = waiter2],
                queue |-> Append(s.queue, your_job_id),
                ret |-> [kind |-> "started", job |-> child, arg |-> your_job_id]]

\* A _start_and_wait that looks the waiter up first and submits no child when
\* it is missing.
StartAndWaitLooksUpFirst(store, q, your_job_id) ==
  IF your_job_id \notin DOMAIN store
  THEN [store |-> store, queue |-> q,
        ret |-> [kind |-> "not_found", job |-> NoJob, arg |-> your_job_id]]
  ELSE LET s == submit_job(store, q, <<>>)
           child == s.id
           waiter2 ==
             [s.store[your_job_id] EXCEPT
                !.status = "in_queue",
                !.depends_on = Append(@, child),
                !.chat_history = ExtendWithStr(@, NoteChars(child))]
       IN  [store |-> [s.store EXCEPT ![your_job_id] = waiter2],
            queue |-> Append(s.queue, your_job_id),
            ret |-> [kind |-> "started", job |-> child, arg |-> your_job_id]]

\* MCPAgent._start_and_wait on a store and a queue: submit_job for the child,
\* then get_job(your_job_id); a missing waiter gives the error string, a
\* waiter found is set to in_queue, gets the child appended to depends_on and
\* the note added to chat_history with +=, and is put on the queue.
StartAndWaitResult(store, q, your_job_id) ==
  LET s == submit_job(store, q, <<>>)
      child == s.id
  IN  IF your_job_id \notin DOMAIN s.store
      THEN [store |-> s.store, queue |-> s.queue,
            ret |-> [kind |-> "not_found", job |-> child, arg |-> your_job_id]]
      ELSE LET waiter == s.store[your_job_id]
               waiter2 ==
                 [waiter EXCEPT
                    !.status = "in_queue",
                    !.depends_on = Append(@, child),
                    !.chat_history = ExtendWithStr(@, NoteChars(child))]
           IN  [store |-> [s.store EXCEPT ![your_job_id] = waiter2],
                queue |-> Append(s.queue, your_job_id),
                ret |-> [kind |-> "started", job |-> child, arg |-> your_job_id]]

\* The tool call, made by the agent whose Runner.run worker w is suspended in,
\* with a your_job_id of the agent's choosing.
StartAndWait(w, your_job_id) ==
  /\ worker[w].pc = "run"
  /\ Cardinality(DOMAIN JOBS) < MaxJobs
  /\ LET r == StartAndWaitResult(JOBS, queue, your_job_id)
     IN  /\ JOBS' = r.store
         /\ queue' = r.queue
         /\ unfinished' = unfinished + (Len(r.queue) - Len(queue))
         /\ ret' = r.ret
  /\ UNCHANGED <<delayed, worker>>
  /\ UNCHANGED <<loaderVars, strategyVars, summaryVars, mcpVars>>

\* A chat_worker that waits for the dependencies itself: it keeps the job it
\* took and goes on only when they are done.
ChatWorkerGetBlocking(w) ==
  /\ \/ /\ worker[w].pc = "get"
        /\ queue # <<>>
        /\ queue' = Tail(queue)
        /\ IF Unmet(Head(queue)) # <<>>
           THEN /\ worker' = [worker EXCEPT ![w] =
                     [Idle EXCEPT !.pc = "wait_deps", !.job = Head(queue)]]
                /\ UNCHANGED JOBS
           ELSE /\ JOBS' = [JOBS EXCEPT ![Head(queue)].status = "in_progress"]
                /\ worker' = [worker EXCEPT ![w] =
                     [Idle EXCEPT !.pc = "connect", !.job = Head(queue)]]
     \/ /\ worker[w].pc = "wait_deps"
        /\ Unmet(worker[w].job) = <<>>
        /\ JOBS' = [JOBS EXCEPT ![worker[w].job].status = "in_progress"]
        /\ worker' = [worker EXCEPT ![w].pc = "connect"]
        /\ UNCHANGED queue
  /\ ret' = NoReturn
  /\ UNCHANGED <<loaderVars, strategyVars, summaryVars, mcpVars>>
  /\ UNCHANGED <<delayed, unfinished>>

\* A chat_worker that gives up on a job whose dependencies are unmet: it marks
\* the job error and does not requeue it.
ChatWorkerGetGivesUp(w) ==
  /\ worker[w].pc = "get"
  /\ queue # <<>>
  /\ LET job == Head(queue)
     IN  /\ queue' = Tail(queue)
         /\ IF Unmet(job) # <<>>
            THEN /\ JOBS' = [JOBS EXCEPT ![job].status = "error"]
                 /\ unfinished' = unfinished - 1
                 /\ UNCHANGED <<delayed, worker>>
            ELSE /\ JOBS' = [JOBS EXCEPT ![job].status = "in_progress"]
                 /\ worker' = [worker EXCEPT ![w] = [Idle EXCEPT !.pc = "connect", !.job = job]]
                 /\ UNCHANGED <<delayed, unfinished>>
  /\ ret' = NoReturn
  /\ UNCHANGED <<loaderVars, strategyVars, summaryVars, mcpVars>>

\* A chat_worker that leaves out queue.task_done() when it hands a job with
\* unmet dependencies to requeue_later.
ChatWorkerGetNoTaskDone(w) ==
  /\ worker[w].pc = "get"
  /\ queue # <<>>
  /\ LET job == Head(queue)
     IN  /\ queue' = Tail(queue)
         /\ IF Unmet(job) # <<>>
            THEN /\ delayed' = [delayed EXCEPT ![job] = @ + 1]
                 /\ UNCHANGED <<JOBS, worker, unfinished>>
            ELSE /\ JOBS' = [JOBS EXCEPT ![job].status = "in_progress"]
                 /\ worker' = [worker EXCEPT ![w] = [Idle EXCEPT !.pc = "connect", !.job = job]]
                 /\ UNCHANGED <<delayed, unfinished>>
  /\ ret' = NoReturn
  /\ UNCHANGED <<loaderVars, strategyVars, summaryVars, mcpVars>>

\* chat_worker from queue.get() to its next await: the dependency check, then
\* either the detached requeue_later task or status = 'in_progress'.
ChatWorkerGet(w) ==
  /\ worker[w].pc = "get"
  /\ queue # <<>>
  /\ LET job == Head(queue)
     IN  /\ queue' = Tail(queue)
         /\ IF Unmet(job) # <<>>
            THEN /\ delayed' = [delayed EXCEPT ![job] = @ + 1]
                 /\ unfinished' = unfinished - 1
                 /\ UNCHANGED <<JOBS, worker>>
            ELSE /\ JOBS' = [JOBS EXCEPT ![job].status = "in_progress"]
                 /\ worker' = [worker EXCEPT ![w] = [Idle EXCEPT !.pc = "connect", !.job = job]]
                 /\ UNCHANGED <<delayed, unfinished>>
  /\ ret' = NoReturn
  /\ UNCHANGED <<loaderVars, strategyVars, summaryVars, mcpVars>>

\* requeue_later: the sleep ends and the job is put back on the queue.
RequeueLater(j) ==
  /\ delayed[j] > 0
  /\ delayed' = [delayed EXCEPT ![j] = @ - 1]
  /\ queue' = Append(queue, j)
  /\ unfinished' = unfinished + 1
  /\ ret' = NoReturn
  /\ UNCHANGED <<loaderVars, strategyVars, summaryVars, mcpVars>>
  /\ UNCHANGED <<JOBS, worker>>

\* An autonomous_chat that always starts from an empty history with the first
\* user message, whatever the job's chat_history holds.
ConnectMcpsFresh(w, ok) ==
  /\ worker[w].pc = "connect"
  /\ IF ok
     THEN /\ worker' = [worker EXCEPT ![w] =
               [pc |-> "run", job |-> worker[w].job, check |-> 1,
                hist |-> <<>>, msg |-> "first"]]
          /\ UNCHANGED <<JOBS, unfinished>>
     ELSE /\ JOBS' = [JOBS EXCEPT ![worker[w].job].status = "error"]
          /\ worker' = [worker EXCEPT ![w] = Idle]
          /\ unfinished' = unfinished - 1
  /\ ret' = NoReturn
  /\ UNCHANGED <<loaderVars, strategyVars, summaryVars, mcpVars>>
  /\ UNCHANGED <<queue, delayed>>

\* A chat_worker without the try/except/finally: a raise of autonomous_chat
\* ends the worker task, with no status written and no task_done.
ConnectMcpsWorkerDies(w, ok) ==
  /\ worker[w].pc = "connect"
  /\ IF ok
     THEN worker' = [worker EXCEPT ![w] =
               IF Len(JOBS[worker[w].job].chat_history) = 0
               THEN [pc |-> "run", job |-> worker[w].job, check |-> 1,
                     hist |-> <<>>, msg |-> "first"]
               ELSE [pc |-> "run", job |-> worker[w].job, check |-> 1,
                     hist |-> JOBS[worker[w].job].chat_history, msg |-> "resume"]]
     ELSE worker' = [worker EXCEPT ![w] = [Idle EXCEPT !.pc = "dead"]]
  /\ ret' = NoReturn
  /\ UNCHANGED <<loaderVars, strategyVars, summaryVars, mcpVars>>
  /\ UNCHANGED <<JOBS, queue, delayed, unfinished>>

\* A resume that sends the initial prompt again after the saved history.
ConnectMcpsResendsPrompt(w, ok) ==
  /\ worker[w].pc = "connect"
  /\ IF ok
     THEN /\ worker' = [worker EXCEPT ![w] =
               [pc |-> "run", job |-> worker[w].job, check |-> 1,
                hist |-> JOBS[worker[w].job].chat_history, msg |-> "first"]]
          /\ UNCHANGED <<JOBS, unfinished>>
     ELSE /\ JOBS' = [JOBS EXCEPT ![worker[w].job].status = "error"]
          /\ worker' = [worker EXCEPT ![w] = Idle]
          /\ unfinished' = unfinished - 1
  /\ ret' = NoReturn
  /\ UNCHANGED <<loaderVars, strategyVars, summaryVars, mcpVars>>
  /\ UNCHANGED <<queue, delayed>>

\* autonomous_chat up to its first Runner.run: connect_mcps returns (ok) or
\* raises after its retries; a raise leaves autonomous_chat and chat_worker
\* sets status = 'error'.
ConnectMcps(w, ok) ==
  /\ worker[w].pc = "connect"
  /\ LET job == worker[w].job
     IN  IF ok
         THEN /\ worker' = [worker EXCEPT ![w] =
                   IF Len(JOBS[job].chat_history) = 0
                   THEN [pc |-> "run", job |-> job, check |-> 1,
                         hist |-> <<>>, msg |-> "first"]
                   ELSE [pc |-> "run", job |-> job, check |-> 1,
                         hist |-> JOBS[job].chat_history, msg |-> "resume"]]
              /\ UNCHANGED <<JOBS, unfinished>>
         ELSE /\ JOBS' = [JOBS EXCEPT ![job].status = "error"]
              /\ worker' = [worker EXCEPT ![w] = Idle]
              /\ unfinished' = unfinished - 1
  /\ ret' = NoReturn
  /\ UNCHANGED <<loaderVars, strategyVars, summaryVars, mcpVars>>
  /\ UNCHANGED <<queue, delayed>>

\* A for-loop that makes one turn more than max_turns.
NextCheckOneMore(w, hist, msg) ==
  IF worker[w].check <= MaxTurns
  THEN [worker[w] EXCEPT !.check = @ + 1, !.hist = hist, !.msg = msg]
  ELSE Idle

\* The rest of the for-loop after a turn that did not end the run: the next
\* Runner.run call, or leaving the loop when max_turns is reached.
NextCheck(w, hist, msg) ==
  IF worker[w].check < MaxTurns
  THEN [worker[w] EXCEPT !.check = @ + 1, !.hist = hist, !.msg = msg]
  ELSE Idle

\* An autonomous_chat without the try/except around the turn: a raise of
\* Runner.run leaves the loop and reaches chat_worker, which sets error.
RunnerRunRaiseEnds(w, outcome) ==
  /\ worker[w].pc = "run"
  /\ LET job == worker[w].job
     IN  IF outcome = "raise"
         THEN /\ worker' = [worker EXCEPT ![w] = Idle]
              /\ JOBS' = [JOBS EXCEPT ![job].status = "error"]
         ELSE LET hist == to_input_list(TurnInput(w))
                  nt == next_turn(outcome, JOBS[job].status)
              IN  IF nt.end
                  THEN /\ JOBS' = [JOBS EXCEPT ![job].chat_history = hist,
                                                ![job].status = "done"]
                       /\ worker' = [worker EXCEPT ![w] = Idle]
                  ELSE /\ JOBS' = [JOBS EXCEPT ![job].chat_history = hist]
                       /\ worker' = [worker EXCEPT ![w] =
                            IF JOBS[job].status = "in_queue"
                            THEN Idle
                            ELSE NextCheck(w, hist, nt.msg)]
  /\ unfinished' = IF worker'[w].pc = "get" THEN unfinished - 1 ELSE unfinished
  /\ ret' = NoReturn
  /\ UNCHANGED <<loaderVars, strategyVars, summaryVars, mcpVars>>
  /\ UNCHANGED <<queue, delayed>>

\* One turn of autonomous_chat: Runner.run returns a final_output with a plan
\* of the given kind, or raises.
RunnerRun(w, outcome) ==
  /\ worker[w].pc = "run"
  /\ LET job == worker[w].job
     IN  IF outcome = "raise"
         THEN /\ worker' = [worker EXCEPT ![w] = NextCheck(w, worker[w].hist, "error")]
              /\ UNCHANGED JOBS
         ELSE LET hist == to_input_list(TurnInput(w))
                  nt == next_turn(outcome, JOBS[job].status)
              IN  IF nt.end
                  THEN /\ JOBS' = [JOBS EXCEPT ![job].chat_history = hist,
                                                ![job].status = "done"]
                       /\ worker' = [worker EXCEPT ![w] = Idle]
                  ELSE /\ JOBS' = [JOBS EXCEPT ![job].chat_history = hist]
                       /\ worker' = [worker EXCEPT ![w] =
                            IF JOBS[job].status = "in_queue"
                            THEN Idle
                            ELSE NextCheck(w, hist, nt.msg)]
  /\ unfinished' = IF worker'[w].pc = "get" THEN unfinished - 1 ELSE unfinished
  /\ ret' = NoReturn
  /\ UNCHANGED <<loaderVars, strategyVars, summaryVars, mcpVars>>
  /\ UNCHANGED <<queue, delayed>>

Next ==
  \/ SubmitJob
  \/ \E w \in Workers : \E y \in DOMAIN JOBS \cup {NoJob} : StartAndWait(w, y)
  \/ \E w \in Workers : ChatWorkerGet(w)
  \/ \E j \in JobIds : RequeueLater(j)
  \/ \E w \in Workers : \E ok \in BOOLEAN : ConnectMcps(w, ok)
  \/ \E w \in Workers : \E o \in RunnerOutcomes : RunnerRun(w, o)

Spec == Init /\ [][Next]_vars

\* The scheduling the event loop gives: a worker waiting in queue.get() gets a
\* job when one is there, connect_mcps and Runner.run come back (they return or
\* raise), and the sleep of a requeue_later task ends.  Nothing obliges a
\* trigger or an agent to submit jobs.
Fairness ==
  /\ \A w \in Workers : WF_vars(ChatWorkerGet(w))
  /\ \A w \in Workers : WF_vars(\E ok \in BOOLEAN : ConnectMcps(w, ok))
  /\ \A w \in Workers : WF_vars(\E o \in RunnerOutcomes : RunnerRun(w, o))
  /\ \A j \in JobIds : WF_vars(RequeueLater(j))

LiveSpec == Init /\ [][Next]_vars /\ Fairness

\* ------------------------------------------------- job ids as uuid tails
\* The allocation of job ids on its own: job_id = str(uuid.uuid4())[-6:] is a
\* draw from the 16^6 tails, here from Tails, with nothing that looks at the
\* ids already in the store.  The queue holds the Job objects themselves, as
\* in the code, and the store maps a job_id to the object last stored under it.

\* Number of different uuid tails.
NumTails == 3
\* Number of submit_job calls.
MaxSubmits == 4

Tails == 1..NumTails

\* The Job object submit_job constructs under a job_id; obj is the identity of
\* the object (the n-th Job constructed).
JobObject(job_id, n) ==
  [job_id |-> job_id, obj |-> n] @@ Job(<<>>)

\* The number of Job objects constructed so far: the last one constructed is
\* always in the store.
Constructed(store) ==
  IF DOMAIN store = {} THEN 0
  ELSE CHOOSE n \in {store[t].obj : t \in DOMAIN store} :
         \A t \in DOMAIN store : store[t].obj <= n

\* JOBS[job_id] = job on a dict: a new key, or a new value under an old key.
StoreUnder(store, job_id, job) ==
  [t \in DOMAIN store \cup {job_id} |-> IF t = job_id THEN job ELSE store[t]]

\* submit_job with the tail uuid4 happened to give.
SubmitJobUuid(job_id) ==
  /\ Constructed(JOBS) < MaxSubmits
  /\ LET job == JobObject(job_id, Constructed(JOBS) + 1)
     IN  /\ JOBS' = StoreUnder(JOBS, job_id, job)
         /\ queue' = Append(queue, job)
  /\ unfinished' = unfinished + 1
  /\ ret' = NoReturn
  /\ UNCHANGED <<loaderVars, strategyVars, summaryVars, mcpVars>>
  /\ UNCHANGED <<delayed, worker>>

\* A write to a field of a Job object shows through every reference to that
\* object: the store's entry, the entries on the queue, a worker's local.
SetObject(x, new) == IF x.obj = new.obj THEN new ELSE x
StoreWith(store, new) == [t \in DOMAIN store |-> SetObject(store[t], new)]
QueueWith(q, new) == [i \in 1..Len(q) |-> SetObject(q[i], new)]
WorkersWith(wk, new) ==
  [w \in Workers |->
     IF wk[w].pc = "get" THEN wk[w] ELSE [wk[w] EXCEPT !.job = SetObject(@, new)]]

\* chat_worker from queue.get() to its call of autonomous_chat, on Job objects:
\* the dependency check against the store and status = 'in_progress' written
\* to the object taken, which the store shows only if it still holds that object.
ChatWorkerGetObject(w) ==
  /\ worker[w].pc = "get"
  /\ queue # <<>>
  /\ LET job == Head(queue)
         done == {t \in DOMAIN JOBS : JOBS[t].status = "done"}
         unmet == SelectSeq(job.depends_on, LAMBDA d : d \notin done)
         started == [job EXCEPT !.status = "in_progress"]
     IN  IF unmet # <<>>
         THEN /\ queue' = Tail(queue)
              /\ unfinished' = unfinished - 1
              /\ UNCHANGED <<JOBS, worker>>
         ELSE /\ queue' = QueueWith(Tail(queue), started)
              /\ JOBS' = StoreWith(JOBS, started)
              /\ worker' = [WorkersWith(worker, started) EXCEPT ![w] =
                   [Idle EXCEPT !.pc = "connect", !.job = started]]
              /\ UNCHANGED unfinished
  /\ ret' = NoReturn
  /\ UNCHANGED <<loaderVars, strategyVars, summaryVars, mcpVars>>
  /\ UNCHANGED delayed

\* autonomous_chat up to its first Runner.run call, on Job objects: when
\* connect_mcps raises, chat_worker writes status = 'error' to the object.
ConnectMcpsObject(w, ok) ==
  /\ worker[w].pc = "connect"
  /\ IF ok
     THEN /\ worker' = [worker EXCEPT ![w].pc = "run", ![w].check = 1]
          /\ UNCHANGED <<JOBS, queue, unfinished>>
     ELSE LET failed == [worker[w].job EXCEPT !.status = "error"]
          IN  /\ JOBS' = StoreWith(JOBS, failed)
              /\ queue' = QueueWith(queue, failed)
              /\ worker' = [WorkersWith(worker, failed) EXCEPT ![w] = Idle]
              /\ unfinished' = unfinished - 1
  /\ ret' = NoReturn
  /\ UNCHANGED <<loaderVars, strategyVars, summaryVars, mcpVars>>
  /\ UNCHANGED delayed

\* MCPAgent._start_and_wait called by a running agent, with the tail uuid4
\* happened to give to the child: submit_job stores the child under job_id,
\* then get_job(your_job_id) reads the store.
StartAndWaitUuid(w, job_id, your_job_id) ==
  /\ worker[w].pc = "run"
  /\ Constructed(JOBS) < MaxSubmits
  /\ LET child == JobObject(job_id, Constructed(JOBS) + 1)
         store == StoreUnder(JOBS, job_id, child)
         q == Append(queue, child)
     IN  IF your_job_id \notin DOMAIN store
         THEN /\ JOBS' = store
              /\ queue' = q
              /\ unfinished' = unfinished + 1
              /\ ret' = [kind |-> "not_found", job |-> job_id, arg |-> your_job_id]
              /\ UNCHANGED worker
         ELSE LET waiter == store[your_job_id]
                  waiter2 ==
                    [waiter EXCEPT
                       !.status = "in_queue",
                       !.depends_on = Append(@, job_id),
                       !.chat_history = ExtendWithStr(@, NoteChars(job_id))]
              IN  /\ JOBS' = StoreWith(store, waiter2)
                  /\ queue' = Append(QueueWith(q, waiter2), waiter2)
                  /\ worker' = WorkersWith(worker, waiter2)
                  /\ unfinished' = unfinished + 2
                  /\ ret' = [kind |-> "started", job |-> job_id, arg |-> your_job_id]
  /\ UNCHANGED <<loaderVars, strategyVars, summaryVars, mcpVars>>
  /\ UNCHANGED delayed

UuidNext ==
  \/ \E t \in Tails : SubmitJobUuid(t)
  \/ \E w \in Workers : ChatWorkerGetObject(w)

UuidSpec == Init /\ [][UuidNext]_vars

\* The allocation of ids together with the tool calls of running agents.
UuidCallNext ==
  \/ \E t \in Tails : SubmitJobUuid(t)
  \/ \E w \in Workers : ChatWorkerGetObject(w)
  \/ \E w \in Workers : \E ok \in BOOLEAN : ConnectMcpsObject(w, ok)
  \/ \E w \in Workers : \E t \in Tails : \E y \in Tails \cup {NoJob} :
       StartAndWaitUuid(w, t, y)

UuidCallSpec == Init /\ [][UuidCallNext]_vars

\* ------------------------------------------------- agents_loader.topo_sort
\* Number of configs (agent folders); the i-th item of the dict is named i.
NumConfigs == 3
\* Longest tools list of a config.
MaxTools == 2

\* The names a tools list may hold: the config names and one name more, which
\* is never a config (an external server).
ToolNames == 1..(NumConfigs + 1)

\* Every list of at most MaxTools tool names.
ToolLists == UNION {[1..k -> ToolNames] : k \in 0..MaxTools}

\* The configs dicts of at most NumConfigs items, in insertion order.
ConfigDicts ==
  UNION {{[i \in 1..n |-> [name |-> i, tools |-> tl[i]]] : tl \in [1..n -> ToolLists]}
         : n \in 0..NumConfigs}

\* The keys of the dict.
Keys(cfgs) == {cfgs[i].name : i \in 1..Len(cfgs)}

\* for name, cfg in configs.items(): for dep in cfg.tools: if dep in configs:
\* the pairs <<dep, name>> in the order the loops meet them.
RECURSIVE EdgesFrom(_, _, _)
EdgesFrom(cfgs, i, k) ==
  IF i > Len(cfgs) THEN <<>>
  ELSE IF k > Len(cfgs[i].tools) THEN EdgesFrom(cfgs, i + 1, 1)
  ELSE (IF cfgs[i].tools[k] \in Keys(cfgs)
        THEN <<<<cfgs[i].tools[k], cfgs[i].name>>>>
        ELSE <<>>) \o EdgesFrom(cfgs, i, k + 1)

\* graph[dep]: the names appended under dep, in order (empty for a new key).
Graph(cfgs) ==
  [dep \in Keys(cfgs) |->
     LET es == SelectSeq(EdgesFrom(cfgs, 1, 1), LAMBDA e : e[1] = dep)
     IN  [x \in 1..Len(es) |-> es[x][2]]]

\* dfs(node) on the state of the closure: visited, temp, order, whether the
\* ValueError was raised, and the number of dfs calls made.
RECURSIVE dfs(_, _, _)
RECURSIVE dfs_each(_, _, _, _)
\* A dfs that marks a node visited when it enters it and has no temp test: a
\* node met again on the way down is taken for finished.
dfs_visited_on_entry(graph, node, st) ==
  LET st0 == [st EXCEPT !.calls = @ + 1]
  IN  IF node \in st0.visited THEN st0
      ELSE LET st1 == dfs_each(graph, graph[node], 1,
                               [st0 EXCEPT !.visited = @ \cup {node}])
           IN  [st1 EXCEPT !.order = Append(@, node)]

dfs(graph, node, st) ==
  LET st0 == [st EXCEPT !.calls = @ + 1]
  IN  IF node \in st0.temp THEN [st0 EXCEPT !.raised = TRUE]
      ELSE IF node \in st0.visited THEN st0
      ELSE LET st1 == dfs_each(graph, graph[node], 1,
                               [st0 EXCEPT !.temp = @ \cup {node}])
           IN  IF st1.raised THEN st1
               ELSE [st1 EXCEPT !.temp = @ \ {node},
                                !.visited = @ \cup {node},
                                !.order = Append(@, node)]

\* for nei in nodes: dfs(nei), left by the first raise.
dfs_each(graph, nodes, i, st) ==
  IF i > Len(nodes) \/ st.raised THEN st
  ELSE dfs_each(graph, nodes, i + 1, dfs(graph, nodes[i], st))

Reverse(seq) == [i \in 1..Len(seq) |-> seq[Len(seq) + 1 - i]]

\* A topo_sort that returns order as the dfs left it.
topo_sort_not_reversed(cfgs) ==
  LET st == dfs_each(Graph(cfgs), [i \in 1..Len(cfgs) |-> cfgs[i].name], 1,
                     [visited |-> {}, temp |-> {}, order |-> <<>>,
                      raised |-> FALSE, calls |-> 0])
  IN  [raised |-> st.raised,
       order |-> IF st.raised THEN <<>> ELSE st.order,
       calls |-> st.calls]

\* topo_sort: the list returned (or raised = TRUE for the ValueError) and the
\* number of dfs calls it took.
topo_sort(cfgs) ==
  LET st == dfs_each(Graph(cfgs), [i \in 1..Len(cfgs) |-> cfgs[i].name], 1,
                     [visited |-> {}, temp |-> {}, order |-> <<>>,
                      raised |-> FALSE, calls |-> 0])
  IN  [raised |-> st.raised,
       order |-> IF st.raised THEN <<>> ELSE Reverse(st.order),
       calls |-> st.calls]

\* topo_sort has not been called yet.
NotSorted == [raised |-> FALSE, order |-> <<>>, calls |-> 0]

\* A resolved tool: a static server, or the MCPAgent loaded under a name.
StaticServer(t) == [kind |-> "static", name |-> t]
LoadedAgent(t) == [kind |-> "agent", name |-> t]

\* The tools list of one config resolved against static_servers and the
\* agents loaded so far; raised = TRUE is the KeyError of loaded[t].
RECURSIVE resolve_tools(_, _, _, _)
resolve_tools(tools, k, servers, names) ==
  IF k > Len(tools) THEN [raised |-> FALSE, tools |-> <<>>]
  ELSE LET t == tools[k]
           rest == resolve_tools(tools, k + 1, servers, names)
       IN  IF t \in servers
           THEN [rest EXCEPT !.tools = <<StaticServer(t)>> \o @]
           ELSE IF t \in names
           THEN [rest EXCEPT !.tools = <<LoadedAgent(t)>> \o @]
           ELSE [raised |-> TRUE, tools |-> <<>>]

\* load_agents: the MCPAgents by name, each with its mcp_servers, built in
\* load_order; raised = TRUE when a tool is neither static nor loaded yet.
RECURSIVE load_each(_, _, _, _, _)
load_each(cfgs, load_order, i, servers, agents) ==
  IF i > Len(load_order) THEN [raised |-> FALSE, agents |-> agents]
  ELSE LET name == load_order[i]
           cfg == cfgs[CHOOSE x \in 1..Len(cfgs) : cfgs[x].name = name]
           r == resolve_tools(cfg.tools, 1, servers, DOMAIN agents)
       IN  IF r.raised THEN [raised |-> TRUE, agents |-> <<>>]
           ELSE load_each(cfgs, load_order, i + 1, servers,
                          agents @@ (name :> [name |-> name, mcp_servers |-> r.tools]))

load_agents(cfgs, load_order, servers) ==
  load_each(cfgs, load_order, 1, servers, <<>>)

\* load_agents has not been called yet.
NotLoaded == [raised |-> FALSE, agents |-> <<>>, called |-> FALSE]

\* Start-up has discovered some configs dict.
LoaderInit ==
  /\ JOBS = <<>>
  /\ queue = <<>>
  /\ delayed = [j \in JobIds |-> 0]
  /\ worker = [w \in Workers |-> Idle]
  /\ unfinished = 0
  /\ ret = NoReturn
  /\ configs \in ConfigDicts
  /\ order = NotSorted
  /\ static_servers \in SUBSET ToolNames
  /\ loaded = NotLoaded
  /\ plan_dict = <<>>
  /\ turn = NoTurn
  /\ summary = [j \in JobIds |-> ""]
  /\ mcp = NoCall

\* main: load_order = topo_sort(configs).
TopoSort ==
  /\ order = NotSorted
  /\ order' = topo_sort(configs)
  /\ UNCHANGED <<JOBS, queue, delayed, worker, unfinished, ret, configs,
                 static_servers, loaded>>
  /\ UNCHANGED <<strategyVars, summaryVars, mcpVars>>

\* main: loaded = load_agents(configs, load_order, static_servers, job_queue),
\* reached when topo_sort returned a list.
LoadAgents ==
  /\ order # NotSorted
  /\ ~order.raised
  /\ loaded = NotLoaded
  /\ loaded' = load_agents(configs, order.order, static_servers)
  /\ UNCHANGED <<JOBS, queue, delayed, worker, unfinished, ret, configs,
                 order, static_servers>>
  /\ UNCHANGED <<strategyVars, summaryVars, mcpVars>>

LoaderNext == TopoSort \/ LoadAgents

LoaderSpec == LoaderInit /\ [][LoaderNext]_vars

\* ------------------------------------------ triggers and the first turn
\* The ways a job comes into being (the console run, POST /<agent_name>/run,
\* the start_agent_X tool) and the input of the first Runner.run call, on
\* jobs with all their fields.  Ids are allocated without repeats, as in Spec.

\* The names of the loaded agents (the keys of main.agents).
AgentNames == {"A", "B"}
\* A name no agent is loaded under.
UnknownAgent == "Z"
\* MCPAgent.strategy_name of each loaded agent.
StrategyName(name) == IF name = "A" THEN "default" ELSE "plan_watcher"

\* The prompts of requests and of the command line.
Prompts == {"p1", "p2"}
\* The inputs a tool call may carry: a str or some other value.
ToolInputs == {[type |-> "str", val |-> "p1"], [type |-> "dict", val |-> "d1"]}

\* str(inputs): a str is returned as it is, another value as its text form.
stringify(inputs) ==
  IF inputs.type = "str" THEN inputs.val ELSE "str(" \o inputs.val \o ")"

\* Job(job_id, agent, text, strategy_name, depends_on or [], status='in_queue').
FullJob(agent, text, strategy_name) ==
  [agent |-> agent, text |-> text, strategy_name |-> strategy_name] @@ Job(<<>>)

\* submit_job(queue, agent, text, strategy_name).
submit_full_job(store, q, agent, text, strategy_name) ==
  LET id == NewJobId(store)
  IN  [id |-> id,
       store |-> store @@ (id :> FullJob(agent, text, strategy_name)),
       queue |-> Append(q, id)]

\* chat_strategy_map.get(strategy_name, ContinueLastUncheckedStrategy).
StrategyClass(strategy_name) ==
  IF strategy_name = "plan_watcher" THEN "PlanWatcherStrategy"
  ELSE "ContinueLastUncheckedStrategy"

\* The start_instruction attribute of a strategy class.
start_instruction(cls) == "Start by making a plan"

\* An initial prompt without the JOB_ID sentence.
initial_prompt_no_id(job_id, text, instruction) ==
  <<[part |-> "text", val |-> text]>> \o
  (IF instruction # "" THEN <<[part |-> "instruction", val |-> instruction]>> ELSE <<>>)

\* " ".join(initial_prompt_parts), as the sequence of the parts joined.
initial_prompt(job_id, text, instruction) ==
  (IF job_id # NoJob THEN <<[part |-> "job_id", val |-> IdStr(job_id)]>> ELSE <<>>) \o
  <<[part |-> "text", val |-> text]>> \o
  (IF instruction # "" THEN <<[part |-> "instruction", val |-> instruction]>> ELSE <<>>)

\* run_job_and_wait of the console run: submit_job for the target agent.
ConsoleRun(name, prompt) ==
  /\ Cardinality(DOMAIN JOBS) < MaxJobs
  /\ LET s == submit_full_job(JOBS, queue, name, prompt, StrategyName(name))
     IN  /\ JOBS' = s.store
         /\ queue' = s.queue
  /\ unfinished' = unfinished + 1
  /\ ret' = NoReturn
  /\ UNCHANGED <<delayed, worker>>
  /\ UNCHANGED <<loaderVars, strategyVars, summaryVars, mcpVars>>

\* run_agent_endpoint: 422 for an unknown agent; otherwise start_agent(...) is
\* called without await, which makes a coroutine object that never runs (its
\* submit_job is not executed), and the started response is returned.
RunAgentEndpoint(agent_name, prompt) ==
  /\ ret' = IF agent_name \notin AgentNames
            THEN [kind |-> "http_422", job |-> NoJob,
                  arg |-> [agent |-> agent_name, prompt |-> prompt]]
            ELSE [kind |-> "http_started", job |-> NoJob,
                  arg |-> [agent |-> agent_name, prompt |-> prompt]]
  /\ UNCHANGED <<JOBS, queue, delayed, worker, unfinished>>
  /\ UNCHANGED <<loaderVars, strategyVars, summaryVars, mcpVars>>

\* A start_agent_X that also makes the caller wait for the new job.
StartToolSuspends(w, name, inputs) ==
  /\ worker[w].pc = "run"
  /\ Cardinality(DOMAIN JOBS) < MaxJobs
  /\ LET s == submit_full_job(JOBS, queue, name, stringify(inputs), StrategyName(name))
     IN  /\ JOBS' = [s.store EXCEPT ![worker[w].job].status = "in_queue",
                                    ![worker[w].job].depends_on = Append(@, s.id)]
         /\ queue' = Append(s.queue, worker[w].job)
         /\ unfinished' = unfinished + 2
         /\ ret' = [kind |-> "tool_started", job |-> s.id,
                    arg |-> [agent |-> name, inputs |-> inputs]]
  /\ UNCHANGED <<delayed, worker>>
  /\ UNCHANGED <<loaderVars, strategyVars, summaryVars, mcpVars>>

\* MCPAgent._start of agent X (the tool start_agent_X), called by the agent
\* whose Runner.run worker w is suspended in.
StartTool(w, name, inputs) ==
  /\ worker[w].pc = "run"
  /\ Cardinality(DOMAIN JOBS) < MaxJobs
  /\ LET s == submit_full_job(JOBS, queue, name, stringify(inputs), StrategyName(name))
     IN  /\ JOBS' = s.store
         /\ queue' = s.queue
         /\ ret' = [kind |-> "tool_started", job |-> s.id,
                    arg |-> [agent |-> name, inputs |-> inputs]]
  /\ unfinished' = unfinished + 1
  /\ UNCHANGED <<delayed, worker>>
  /\ UNCHANGED <<loaderVars, strategyVars, summaryVars, mcpVars>>

\* current_user_message_content of the Runner.run call worker w is suspended
\* in: the initial prompt of a new job, built from the job's id and text and
\* the start_instruction of its strategy class, or the literal set later.
current_user_message_content(w) ==
  IF worker[w].msg = "first"
  THEN LET id == worker[w].job
       IN  initial_prompt(id, JOBS[id].text,
                          start_instruction(StrategyClass(JOBS[id].strategy_name)))
  ELSE <<[part |-> "literal", val |-> worker[w].msg]>>

\* turn_input_for_api of the Runner.run call worker w is suspended in.
turn_input_for_api(w) ==
  Append(worker[w].hist, Msg("user", current_user_message_content(w), 0))

TriggerNext ==
  \/ \E name \in AgentNames : \E prompt \in Prompts : ConsoleRun(name, prompt)
  \/ \E name \in AgentNames \cup {UnknownAgent} : \E prompt \in Prompts :
       RunAgentEndpoint(name, prompt)
  \/ \E w \in Workers : \E name \in AgentNames : \E inputs \in ToolInputs :
       StartTool(w, name, inputs)
  \/ \E w \in Workers : ChatWorkerGet(w)
  \/ \E w \in Workers : \E ok \in BOOLEAN : ConnectMcps(w, ok)

TriggerSpec == Init /\ [][TriggerNext]_vars

\* ------------------------------------------------- the two strategies
\* next_turn of ContinueLastUncheckedStrategy and of PlanWatcherStrategy as
\* functions of final_output.plan, of the job's status read from the store and
\* (PlanWatcher) of the instance's plan_dict.  chat_patterns.py and
\* strategies.py hold the same two classes; strategies.py reads the job
\* through get_job_func and the plan through getattr.

MaxSteps == 2
StepNames == {"s1", "s2"}
\* A step without a step_name attribute.
NoName == "-"
\* The steps of a plan: step_name and checked.
Steps == [step_name : StepNames \cup {NoName}, checked : BOOLEAN]
Plans == UNION {[1..n -> Steps] : n \in 0..MaxSteps}
\* job.status as next_turn sees it; not_found when JOBS.get(job_id) is None.
JobStatuses == {"not_found", "in_queue", "in_progress", "done", "error"}

\* The sentences of the messages.
PlanEmptyMsg ==
  [kind |-> "plan_empty", step |-> NoName,
   text |-> "Plan shouldn't be empty. Revisit the conversation history and generate a new plan according to your goals."]
ContinueMsg ==
  [kind |-> "continue", step |-> NoName,
   text |-> "Continue with the first step of the plan that is not checked yet. And after verifing the step goal mark it as checked."]
WatcherContinueMsg ==
  [kind |-> "continue", step |-> NoName,
   text |-> "Continue with the first step of the plan that is not checked yet. And after verifying the step goal mark it as checked."]
RemovedMsg(step_name) ==
  [kind |-> "removed", step |-> step_name,
   text |-> "The step: {step_name} was unexpectedly removed from your plan, please review it and add it again properly."]

\* all(step.checked for step in plan).
AllChecked(plan) == \A i \in 1..Len(plan) : plan[i].checked

\* A next_turn that ends the run on an empty plan (all() of nothing is true).
ContinueLastUnchecked_next_turn_empty_ends(plan, status) ==
  IF status # "in_progress" THEN Result(FALSE, TRUE, <<>>)
  ELSE IF AllChecked(plan) THEN Result(TRUE, TRUE, <<>>)
  ELSE Result(FALSE, FALSE, <<ContinueMsg>>)

\* ContinueLastUncheckedStrategy.next_turn.
ContinueLastUnchecked_next_turn(plan, status) ==
  IF status # "in_progress" THEN Result(FALSE, TRUE, <<>>)
  ELSE IF Len(plan) = 0 THEN Result(FALSE, FALSE, <<PlanEmptyMsg>>)
  ELSE IF AllChecked(plan) THEN Result(TRUE, TRUE, <<>>)
  ELSE Result(FALSE, FALSE, <<ContinueMsg>>)

\* str(i) of the enumerate index of the step at place i (places start at 1).
IndexStr == <<"0", "1", "2", "3">>
\* getattr(step, 'step_name', str(i)).
StepKey(plan, i) ==
  IF plan[i].step_name = NoName THEN IndexStr[i] ELSE plan[i].step_name

\* d[k] = v on a dict kept as the sequence of its items in insertion order:
\* a key that is there keeps its place and gets the new value.
dict_set(d, k, v) ==
  IF \E i \in 1..Len(d) : d[i].key = k
  THEN [i \in 1..Len(d) |-> IF d[i].key = k THEN [key |-> k, step |-> v] ELSE d[i]]
  ELSE Append(d, [key |-> k, step |-> v])

RECURSIVE dict_from(_, _, _)
dict_from(plan, i, d) ==
  IF i > Len(plan) THEN d
  ELSE dict_from(plan, i + 1, dict_set(d, StepKey(plan, i), plan[i]))

\* {getattr(step, 'step_name', str(i)): step for i, step in enumerate(plan)}.
new_plan_dict(plan) == dict_from(plan, 1, <<>>)

DictKeys(d) == {d[i].key : i \in 1..Len(d)}

\* The messages for the removed steps that were not checked, in the order of
\* self.plan_dict.items().
RECURSIVE removed_messages(_, _, _)
removed_messages(old, i, new) ==
  IF i > Len(old) THEN <<>>
  ELSE (IF old[i].key \notin DictKeys(new) /\ ~old[i].step.checked
        THEN <<RemovedMsg(old[i].key)>> ELSE <<>>)
       \o removed_messages(old, i + 1, new)

\* A next_turn that always adds the Continue sentence after the corrective
\* ones when a step is unchecked.
PlanWatcher_next_turn_always_continue(old, plan, status) ==
  IF status # "in_progress"
  THEN [plan_dict |-> old, out |-> Result(FALSE, TRUE, <<>>)]
  ELSE LET new == new_plan_dict(plan)
           messages == removed_messages(old, 1, new)
       IN  [plan_dict |-> new,
            out |-> IF Len(plan) = 0
                    THEN Result(FALSE, FALSE, Append(messages, PlanEmptyMsg))
                    ELSE IF AllChecked(plan) THEN Result(TRUE, TRUE, <<>>)
                    ELSE Result(FALSE, FALSE, Append(messages, WatcherContinueMsg))]

\* PlanWatcherStrategy.next_turn on an instance whose plan_dict is old: the
\* new plan_dict and the result.
PlanWatcher_next_turn(old, plan, status) ==
  IF status # "in_progress"
  THEN [plan_dict |-> old, out |-> Result(FALSE, TRUE, <<>>)]
  ELSE LET new == new_plan_dict(plan)
           messages == removed_messages(old, 1, new)
       IN  [plan_dict |-> new,
            out |-> IF Len(plan) = 0
                    THEN Result(FALSE, FALSE, Append(messages, PlanEmptyMsg))
                    ELSE IF AllChecked(plan) THEN Result(TRUE, TRUE, <<>>)
                    ELSE Result(FALSE, FALSE,
                                IF messages = <<>> THEN <<WatcherContinueMsg>>
                                ELSE messages)]

\* prompt_strategy_cls() at the start of an autonomous_chat: a new instance.
NewStrategy ==
  /\ plan_dict' = <<>>
  /\ turn' = NoTurn
  /\ UNCHANGED <<JOBS, queue, delayed, worker, unfinished, ret>>
  /\ UNCHANGED <<loaderVars, summaryVars, mcpVars>>

\* A next_turn call on a ContinueLastUncheckedStrategy.
ContinueNextTurn(plan, status) ==
  /\ turn' = [strategy |-> "ContinueLastUncheckedStrategy", status |-> status,
              plan |-> plan, prev |-> plan_dict,
              out |-> ContinueLastUnchecked_next_turn(plan, status)]
  /\ UNCHANGED plan_dict
  /\ UNCHANGED <<JOBS, queue, delayed, worker, unfinished, ret>>
  /\ UNCHANGED <<loaderVars, summaryVars, mcpVars>>

\* A next_turn call on the PlanWatcherStrategy instance.
PlanWatcherNextTurn(plan, status) ==
  /\ LET r == PlanWatcher_next_turn(plan_dict, plan, status)
     IN  /\ plan_dict' = r.plan_dict
         /\ turn' = [strategy |-> "PlanWatcherStrategy", status |-> status,
                     plan |-> plan, prev |-> plan_dict, out |-> r.out]
  /\ UNCHANGED <<JOBS, queue, delayed, worker, unfinished, ret>>
  /\ UNCHANGED <<loaderVars, summaryVars, mcpVars>>

StrategyNext ==
  \/ NewStrategy
  \/ \E plan \in Plans : \E status \in JobStatuses : ContinueNextTurn(plan, status)
  \/ \E plan \in Plans : \E status \in JobStatuses : PlanWatcherNextTurn(plan, status)

StrategySpec == Init /\ [][StrategyNext]_vars

\* ------------------------------------------------------------ vocabulary
Range(seq) == {seq[i] : i \in 1..Len(seq)}
Count(seq, x) == Cardinality({i \in 1..Len(seq) : seq[i] = x})
IsPrefix(a, b) == Len(a) <= Len(b) /\ SubSeq(b, 1, Len(a)) = a

\* Worker w holds job j: it is inside autonomous_chat for it.
Holds(w, j) == worker[w].pc \in {"connect", "run"} /\ worker[w].job = j

\* In this step worker w took job j off the queue and started it.
StartsJob(w, j) ==
  /\ worker[w].pc = "get"
  /\ worker'[w].pc = "connect"
  /\ worker'[w].job = j

TypeOK ==
  /\ DOMAIN JOBS \subseteq JobIds
  /\ \A j \in DOMAIN JOBS :
       /\ JOBS[j].status \in {"in_queue", "in_progress", "done", "error"}
       /\ Range(JOBS[j].depends_on) \subseteq DOMAIN JOBS
  /\ Range(queue) \subseteq DOMAIN JOBS
  /\ \A w \in Workers : worker[w].pc \in {"get", "connect", "run"}

\* ----------------------------------------------------------------- claims

\* C1: whenever a worker sets a job to in_progress and starts autonomous_chat
\* for it, every id in the job's depends_on names a job of the store whose
\* status is done at that moment.
C1_DepsDoneWhenStarted ==
  [][\A w \in Workers : \A j \in DOMAIN JOBS :
       StartsJob(w, j) =>
         /\ JOBS'[j].status = "in_progress"
         /\ \A d \in Range(JOBS[j].depends_on) :
              d \in DOMAIN JOBS /\ JOBS[d].status = "done"]_vars

\* A worker has started a job that has a dependency.
C1_Witness ==
  \E w \in Workers :
    /\ worker[w].pc = "connect"
    /\ JOBS[worker[w].job].depends_on # <<>>

\* C2: at any time at most one worker is inside autonomous_chat for a given
\* job.
C2_OneWorkerPerJob ==
  \A w1, w2 \in Workers : \A j \in DOMAIN JOBS :
    (Holds(w1, j) /\ Holds(w2, j)) => w1 = w2

\* C3: every status change of a job is in_queue -> in_progress,
\* in_progress -> done, in_progress -> error or in_progress -> in_queue, and
\* the last one comes with at least one id appended to the job's depends_on.
C3_StatusTransitions ==
  [][\A j \in DOMAIN JOBS :
       JOBS'[j].status # JOBS[j].status =>
         /\ <<JOBS[j].status, JOBS'[j].status>> \in
              {<<"in_queue", "in_progress">>, <<"in_progress", "done">>,
               <<"in_progress", "error">>, <<"in_progress", "in_queue">>}
         /\ JOBS'[j].status = "in_queue" =>
              /\ Len(JOBS'[j].depends_on) > Len(JOBS[j].depends_on)
              /\ IsPrefix(JOBS[j].depends_on, JOBS'[j].depends_on)]_vars

\* The last step was a _start_and_wait call that found its waiter.
CallFound == ret'.kind # "none" /\ ret'.arg \in DOMAIN JOBS
\* The last step was a _start_and_wait call whose your_job_id names no job.
CallNotFound == ret'.kind # "none" /\ ret'.arg \notin DOMAIN JOBS

\* C4: _start_and_wait puts the child in the store and on the queue and the
\* child's id in the caller's depends_on before it re-enqueues the caller, and
\* depends_on never loses an entry afterwards: a worker that later takes the
\* caller off the queue starts it only if the child (like every entry) is done.
C4_ChildVisibleBeforeRequeue ==
  [][/\ CallFound =>
          (/\ ret'.job \in DOMAIN JOBS'
           /\ ret'.job \in Range(JOBS'[ret'.arg].depends_on)
           /\ Len(queue') >= 2
           /\ queue'[Len(queue')] = ret'.arg
           /\ \E i \in 1..(Len(queue') - 1) : queue'[i] = ret'.job)
     /\ \A j \in DOMAIN JOBS : IsPrefix(JOBS[j].depends_on, JOBS'[j].depends_on)
     /\ \A w \in Workers : \A j \in DOMAIN JOBS :
          StartsJob(w, j) =>
            \A d \in Range(JOBS[j].depends_on) : JOBS[d].status = "done"]_vars

\* A caller re-enqueued by _start_and_wait has been taken off the queue by a
\* worker while its child was not done, and waits in a delayed requeue.
C4_Witness ==
  \E p \in DOMAIN JOBS :
    /\ delayed[p] > 0
    /\ JOBS[p].depends_on # <<>>
    /\ \E d \in Range(JOBS[p].depends_on) : JOBS[d].status # "done"

\* C5: a _start_and_wait call whose your_job_id names a job of the store
\* creates exactly one new job (in_queue, no dependencies), appends exactly
\* the child's id to the caller's depends_on, sets the caller to in_queue, puts
\* child and caller on the queue once each, and changes no other job.
C5_StartAndWaitFrame ==
  [][CallFound =>
       LET c == ret'.job
           p == ret'.arg
       IN  /\ ret'.kind = "started"
           /\ c \notin DOMAIN JOBS
           /\ DOMAIN JOBS' = DOMAIN JOBS \cup {c}
           /\ JOBS'[c].status = "in_queue"
           /\ JOBS'[c].depends_on = <<>>
           /\ JOBS'[c].chat_history = <<>>
           /\ JOBS'[p].depends_on = Append(JOBS[p].depends_on, c)
           /\ JOBS'[p].status = "in_queue"
           /\ \A j \in DOMAIN JOBS \ {p} : JOBS'[j] = JOBS[j]
           /\ Count(queue', p) = Count(queue, p) + 1
           /\ Count(queue', c) = 1
           /\ Len(queue') = Len(queue) + 2
           /\ delayed' = delayed]_vars

\* A caller that already had a dependency has been suspended on a second child.
C5_Witness ==
  /\ ret.kind = "started"
  /\ Len(JOBS[ret.arg].depends_on) = 2
  /\ JOBS[ret.arg].status = "in_queue"

\* C6: a successful _start_and_wait appends exactly one entry to the caller's
\* chat_history, an assistant message "Job <child_id> has been started.", and
\* leaves the earlier entries as they were.
C6_OneAssistantNote ==
  [][CallFound =>
       JOBS'[ret'.arg].chat_history =
         Append(JOBS[ret'.arg].chat_history,
                Msg("assistant", "job_started", ret'.job))]_vars

\* C7: _start_and_wait with a your_job_id that is not in the store returns the
\* error string without raising, changes no field of any existing job and puts
\* no existing job on the queue.
C7_NotFoundLeavesJobsAlone ==
  [][CallNotFound =>
       /\ ret'.kind = "not_found"
       /\ \A j \in DOMAIN JOBS :
            /\ JOBS'[j] = JOBS[j]
            /\ Count(queue', j) = Count(queue, j)
       /\ delayed' = delayed
       /\ worker' = worker]_vars

\* A call with an unknown your_job_id has returned while jobs were in the
\* store and on the queue.
C7_Witness ==
  /\ ret.kind = "not_found"
  /\ Cardinality(DOMAIN JOBS) >= 2
  /\ Len(queue) >= 2

InQueue(j) == j \in Range(queue)
\* Job j awaits pickup: it is on the queue or a requeue_later task sleeps for it.
Pending(j) == InQueue(j) \/ delayed[j] > 0
HasUnmet(j) == j \in DOMAIN JOBS /\ Unmet(j) # <<>>
ReadyOnQueue(j) == j \in DOMAIN JOBS /\ InQueue(j) /\ Unmet(j) = <<>>
\* A worker has just taken j off the queue and set it in_progress.
Started(j) == \E w \in Workers : worker[w].pc = "connect" /\ worker[w].job = j
\* In this step a worker took job j off the queue.
Dequeues(j) == queue # <<>> /\ Head(queue) = j /\ queue' = Tail(queue)

\* C8: a job whose dependencies are unmet never occupies a worker: the step
\* that takes it off the queue leaves every worker where it was (the taker back
\* in queue.get()), the wait being left to a requeue_later task; and, with fair
\* scheduling and every Runner.run call coming back, a job that is on the queue
\* with all its dependencies done is eventually started (unless it is given a
\* new unmet dependency first), however many jobs with unmet dependencies there
\* are.
C8_WorkerNeverBlocksOnDeps ==
  /\ [][\A j \in DOMAIN JOBS :
          (Dequeues(j) /\ HasUnmet(j)) =>
            (worker' = worker /\ delayed'[j] = delayed[j] + 1)]_vars
  /\ \A j \in JobIds : ReadyOnQueue(j) ~> (Started(j) \/ HasUnmet(j))

\* A job has been started while at least as many jobs as there are workers
\* await pickup with unmet dependencies.
C8_Witness ==
  /\ \E j \in DOMAIN JOBS : Started(j)
  /\ Cardinality({k \in DOMAIN JOBS : HasUnmet(k) /\ Pending(k)}) >= NumWorkers

\* Job p was suspended by _start_and_wait and all its dependencies are done.
SuspendedDepsDone(p) ==
  /\ p \in DOMAIN JOBS
  /\ JOBS[p].status = "in_queue"
  /\ JOBS[p].depends_on # <<>>
  /\ Unmet(p) = <<>>

\* Worker w is in the first turn of a resumed autonomous_chat.
InResumedTurn(w) ==
  worker[w].pc = "run" /\ worker[w].msg = "resume" /\ worker[w].check = 1

\* C9: a job suspended by _start_and_wait whose dependencies have all become
\* done is, under fair scheduling, eventually taken off the queue and set
\* in_progress (unless it is given another unmet dependency first); its
\* autonomous_chat then starts from the saved chat_history with the resume
\* message; and when that first turn returns an all-checked plan with the job
\* still in_progress, the job is set done and the worker is free again.
C9_ParentResumesAfterChild ==
  /\ \A p \in JobIds : SuspendedDepsDone(p) ~> (Started(p) \/ HasUnmet(p))
  /\ [][\A w \in Workers :
          (/\ worker[w].pc = "connect"
           /\ worker'[w].pc = "run"
           /\ JOBS[worker[w].job].depends_on # <<>>) =>
            /\ worker'[w].job = worker[w].job
            /\ worker'[w].check = 1
            /\ worker'[w].hist = JOBS[worker[w].job].chat_history
            /\ worker'[w].hist # <<>>
            /\ worker'[w].msg = "resume"]_vars
  /\ [](\A w \in Workers :
          (InResumedTurn(w) /\ JOBS[worker[w].job].status = "in_progress") =>
            /\ ENABLED RunnerRun(w, "checked")
            /\ ~ENABLED (/\ RunnerRun(w, "checked")
                         /\ ~(/\ JOBS'[worker[w].job].status = "done"
                              /\ worker'[w] = Idle)))

\* A parent suspended on a child has finished done on the first turn after its
\* resume: its history ends with the resume message and the turn's output.
C9_Witness ==
  \E p \in DOMAIN JOBS :
    /\ JOBS[p].status = "done"
    /\ JOBS[p].depends_on # <<>>
    /\ Len(JOBS[p].chat_history) >= 2
    /\ JOBS[p].chat_history[Len(JOBS[p].chat_history) - 1] = Msg("user", "resume", 0)
    /\ \A w \in Workers : worker[w].job # p

\* C10: a job with a dependency that is not done is never set in_progress;
\* while it waits (in_queue, held by no worker) its status stays in_queue;
\* every step that takes it off the queue leaves its status and every other
\* field alone and starts a requeue_later task for it, which, under fair
\* scheduling, puts it back on the queue; a job that is in_queue with an unmet
\* dependency is always on the queue or in such a task, so the cycle goes on
\* for as long as the dependency is not done.
C10_UnmetJobRequeuedForever ==
  /\ [][\A j \in DOMAIN JOBS :
          /\ (HasUnmet(j) /\ JOBS[j].status # "in_progress") =>
               JOBS'[j].status # "in_progress"
          /\ (/\ HasUnmet(j)
              /\ JOBS[j].status = "in_queue"
              /\ \A w \in Workers : ~Holds(w, j)) =>
               (JOBS'[j].status = "in_queue" /\ \A w \in Workers : ~Holds(w, j)')
          /\ (Dequeues(j) /\ HasUnmet(j)) =>
               /\ JOBS' = JOBS
               /\ worker' = worker
               /\ delayed' = [delayed EXCEPT ![j] = @ + 1]]_vars
  /\ [](\A j \in DOMAIN JOBS :
          (HasUnmet(j) /\ JOBS[j].status = "in_queue") => Pending(j))
  /\ \A j \in JobIds : (delayed[j] > 0) ~> InQueue(j)

\* A job waits in a delayed requeue, still in_queue, for a dependency that
\* ended in error or was left in_progress at max_turns.
C10_Witness ==
  \E j \in DOMAIN JOBS :
    /\ delayed[j] > 0
    /\ JOBS[j].status = "in_queue"
    /\ \E d \in Range(JOBS[j].depends_on) :
         /\ JOBS[d].status \in {"error", "in_progress"}
         /\ ~Pending(d)
         /\ \A w \in Workers : worker[w].job # d
\* What a Runner.run call can do: raise, or return a plan of any kind.
TurnOutcomes == PlanKinds \cup {"raise"}

\* C11: a job's status becomes done only in the step that ends a Runner.run
\* turn of a worker holding the job, with the job in_progress when the strategy
\* is consulted and the turn's plan non-empty with every step checked (the
\* strategy then returns end = TRUE); no turn that raises or returns an empty
\* plan or a plan with an unchecked step, and no turn of a job that is not
\* in_progress, can set the job done.
C11_DoneOnlyOnCheckedPlan ==
  /\ [][\A j \in DOMAIN JOBS :
          (JOBS[j].status # "done" /\ JOBS'[j].status = "done") =>
            /\ JOBS[j].status = "in_progress"
            /\ next_turn("checked", JOBS[j].status).end
            /\ \E w \in Workers :
                 /\ worker[w].pc = "run"
                 /\ worker[w].job = j
                 /\ RunnerRun(w, "checked")]_vars
  /\ [](\A w \in Workers : \A o \in TurnOutcomes :
          worker[w].pc = "run" =>
            ~ENABLED (/\ RunnerRun(w, o)
                      /\ JOBS[worker[w].job].status # "done"
                      /\ JOBS'[worker[w].job].status = "done"
                      /\ ~(/\ o = "checked"
                           /\ JOBS[worker[w].job].status = "in_progress"
                           /\ next_turn(o, JOBS[worker[w].job].status).end)))

\* A job without dependencies is done after two turns: its history holds the
\* first message, an output, the continue message and the last output.
C11_Witness ==
  \E j \in DOMAIN JOBS :
    /\ JOBS[j].status = "done"
    /\ JOBS[j].depends_on = <<>>
    /\ Len(JOBS[j].chat_history) = 4
    /\ JOBS[j].chat_history[3] = Msg("user", "continue", 0)

\* Job j was left in_progress by an autonomous_chat that returned: no worker
\* holds it, it is not on the queue and no requeue_later task sleeps for it.
Stalled(j) ==
  /\ j \in DOMAIN JOBS
  /\ JOBS[j].status = "in_progress"
  /\ ~Pending(j)
  /\ \A w \in Workers : ~Holds(w, j)

InTurnAfterRaise(w) == worker[w].pc = "run" /\ worker[w].msg = "error"

Busy == Cardinality({w \in Workers : worker[w].pc # "get"})

\* C14: when autonomous_chat raises out to chat_worker (connect_mcps gave up),
\* the worker sets that job's status to error and no other job's, calls
\* task_done once (the count of unfinished tasks goes down by one, and always
\* equals the jobs on the queue plus the jobs workers are busy with), and is
\* back in queue.get(): every worker is always either busy with a job or able
\* to take the next job off the queue.
C14_WorkerSurvivesException ==
  /\ [][\A w \in Workers : \A j \in DOMAIN JOBS :
          (worker[w].pc = "connect" /\ worker[w].job = j /\ ConnectMcps(w, FALSE)) =>
            /\ JOBS' = [JOBS EXCEPT ![j].status = "error"]
            /\ unfinished' = unfinished - 1
            /\ worker' = [worker EXCEPT ![w] = Idle]
            /\ queue' = queue]_vars
  /\ [](unfinished = Len(queue) + Busy)
  /\ [](\A w \in Workers :
          /\ worker[w].pc \in {"get", "connect", "run"}
          /\ worker[w].pc = "connect" => ENABLED ConnectMcps(w, FALSE)
          /\ (worker[w].pc = "get" /\ queue # <<>>) => ENABLED ChatWorkerGet(w))

\* After failures of connect_mcps every worker is back in queue.get(), each
\* dequeue has had its task_done, and a later job waits on the queue.
C14_Witness ==
  /\ \E j \in DOMAIN JOBS : JOBS[j].status = "error"
  /\ \A w \in Workers : worker[w].pc = "get"
  /\ queue # <<>>
  /\ unfinished = Len(queue)

\* C15: a failure to reach a capability server, whether connect_mcps gives up
\* or a Runner.run call raises, leaves the job's status as it was (it never
\* becomes error) and, while a turn remains, is followed by a Runner.run call
\* whose user message carries the error.
C15_ServerFailureNotFatal ==
  [][\A w \in Workers : \A j \in DOMAIN JOBS :
       (/\ worker[w].job = j
        /\ \/ worker[w].pc = "connect" /\ ConnectMcps(w, FALSE)
           \/ worker[w].pc = "run" /\ RunnerRun(w, "raise")) =>
         /\ JOBS'[j].status = JOBS[j].status
         /\ JOBS'[j].status # "error"
         /\ worker[w].check < MaxTurns =>
              /\ worker'[w].pc = "run"
              /\ worker'[w].job = j
              /\ worker'[w].msg = "error"]_vars

\* C16: every step leaves each job's chat_history as it was or extends it at
\* the end: the history before the step is a prefix of the history after it.
C16_HistoryOnlyGrows ==
  [][\A j \in DOMAIN JOBS :
       IsPrefix(JOBS[j].chat_history, JOBS'[j].chat_history)]_vars

\* C18: no step removes a key from the job store, and in every reachable state
\* every id in every job's depends_on is a key of the store.
C18_StoreKeepsEntries ==
  /\ [][DOMAIN JOBS \subseteq DOMAIN JOBS']_vars
  /\ [](\A j \in DOMAIN JOBS : Range(JOBS[j].depends_on) \subseteq DOMAIN JOBS)

\* The store is full, a job depends on two others, and a dependency that is
\* finished (done or error) is still in the store.
C18_Witness ==
  /\ Cardinality(DOMAIN JOBS) = MaxJobs
  /\ \E j \in DOMAIN JOBS :
       /\ Len(JOBS[j].depends_on) = 2
       /\ \E d \in Range(JOBS[j].depends_on) : JOBS[d].status \in {"done", "error"}

\* C17: every Job object put on the queue is, at the time of the put, the
\* store's entry under its job_id, and every Job object taken off the queue is
\* at that time still the store's entry under its job_id.
C17_QueuedJobIsStoreEntry ==
  /\ [][Len(queue') > Len(queue) =>
          LET job == queue'[Len(queue')]
          IN  /\ job.job_id \in DOMAIN JOBS'
              /\ JOBS'[job.job_id].obj = job.obj]_vars
  /\ [][(queue # <<>> /\ queue' = Tail(queue)) =>
          /\ Head(queue).job_id \in DOMAIN JOBS
          /\ JOBS[Head(queue).job_id].obj = Head(queue).obj]_vars

\* C19: every submit_job call stores its job under a job_id that was not a
\* key of the store, and leaves every entry the store had as it was.
C19_FreshJobId ==
  [][Len(queue') > Len(queue) =>
       /\ queue'[Len(queue')].job_id \notin DOMAIN JOBS
       /\ \A t \in DOMAIN JOBS : JOBS'[t] = JOBS[t]]_vars

\* The tools of config a that name a config.
AgentTools(cfgs, a) == Range(cfgs[a].tools) \cap Keys(cfgs)

\* The configs reached from the set S along at most k more tool edges.
RECURSIVE ReachedFrom(_, _, _)
ReachedFrom(cfgs, S, k) ==
  IF k = 0 THEN S
  ELSE ReachedFrom(cfgs, S \cup UNION {AgentTools(cfgs, x) : x \in S}, k - 1)

\* No config is, directly or through other configs, a tool of itself.
Acyclic(cfgs) ==
  \A a \in Keys(cfgs) : a \notin ReachedFrom(cfgs, AgentTools(cfgs, a), Len(cfgs))

\* The configs with the tool names that are no configs taken out.
StripExternal(cfgs) ==
  [i \in 1..Len(cfgs) |->
     [cfgs[i] EXCEPT !.tools = SelectSeq(@, LAMBDA t : t \in Keys(cfgs))]]

Pos(seq, x) == CHOOSE i \in 1..Len(seq) : seq[i] = x

\* C20: on an acyclic configs dict topo_sort ends without the ValueError,
\* after at most one dfs call per config and one per tool edge, and returns a
\* list that holds every config name exactly once, with each agent after every
\* tool of its that names a config; and the result is the one topo_sort gives
\* for the same dict with the tool names that are no configs removed.
C20_TopoSortOrder ==
  order # NotSorted =>
    /\ order = topo_sort(StripExternal(configs))
    /\ Acyclic(configs) =>
         /\ ~order.raised
         /\ order.calls <= Len(configs) + Len(EdgesFrom(configs, 1, 1))
         /\ Len(order.order) = Len(configs)
         /\ Range(order.order) = Keys(configs)
         /\ \A a \in Keys(configs) : \A t \in AgentTools(configs, a) :
              Pos(order.order, t) < Pos(order.order, a)

\* topo_sort has turned the insertion order 1, 2, 3 round: 1 uses 2 and an
\* external server, 2 uses 3.
C20_Witness ==
  /\ Len(configs) = 3
  /\ Acyclic(configs)
  /\ order.order = <<3, 2, 1>>
  /\ 2 \in Range(configs[1].tools)
  /\ 3 \in Range(configs[2].tools)
  /\ \E i \in 1..3 : \E k \in 1..Len(configs[i].tools) :
       configs[i].tools[k] \notin Keys(configs)

\* C21: on a configs dict in which some config is, directly (it lists itself)
\* or through other configs, a tool of itself, topo_sort raises the ValueError
\* and returns no order, wherever in the dict the cycle lies.
C21_TopoSortCycleRaises ==
  (order # NotSorted /\ ~Acyclic(configs)) =>
    /\ order.raised
    /\ order.order = <<>>

\* topo_sort has raised on a dict whose first config, where the traversal
\* starts, is on no cycle and is used by none: 2 and 3 use each other.
C21_Witness ==
  /\ Len(configs) = 3
  /\ order.raised
  /\ AgentTools(configs, 1) = {}
  /\ AgentTools(configs, 2) = {3}
  /\ AgentTools(configs, 3) = {2}

\* C22: in what load_agents returns, a tool name of a config that names both
\* a config and a static server is resolved to the agent loaded under that
\* name.
C22_AgentWinsOverStatic ==
  (loaded # NotLoaded /\ ~loaded.raised) =>
    \A a \in Keys(configs) : \A k \in 1..Len(configs[a].tools) :
      (configs[a].tools[k] \in Keys(configs) \cap static_servers) =>
        loaded.agents[a].mcp_servers[k] = LoadedAgent(configs[a].tools[k])

C27_StartToolFrame ==
  [][ret'.kind = "tool_started" =>
       /\ ret'.job \notin DOMAIN JOBS
       /\ DOMAIN JOBS' = DOMAIN JOBS \cup {ret'.job}
       /\ JOBS'[ret'.job] =
            [agent |-> ret'.arg.agent,
             text |-> stringify(ret'.arg.inputs),
             strategy_name |-> StrategyName(ret'.arg.agent),
             status |-> "in_queue",
             depends_on |-> <<>>,
             chat_history |-> <<>>]
       /\ queue' = Append(queue, ret'.job)
       /\ \A j \in DOMAIN JOBS : JOBS'[j] = JOBS[j]
       /\ worker' = worker
       /\ delayed' = delayed]_vars

\* A running job of agent A has called start_agent_B with inputs that are no
\* str; the caller is still in_progress, without dependencies.
C27_Witness ==
  /\ ret.kind = "tool_started"
  /\ ret.arg.agent = "B"
  /\ ret.arg.inputs.type = "dict"
  /\ \E w \in Workers :
       /\ worker[w].pc = "run"
       /\ JOBS[worker[w].job].agent = "A"
       /\ JOBS[worker[w].job].status = "in_progress"
       /\ JOBS[worker[w].job].depends_on = <<>>

\* C28: a POST /<agent_name>/run for a loaded agent that answers
\* {status: started, agent: <name>} has added exactly one job to the store,
\* for that agent, with the request's prompt as text, the agent's
\* strategy_name and status in_queue, and has put it on the queue.
C28_RunEndpointSubmitsJob ==
  [][ret'.kind = "http_started" =>
       /\ ret'.arg.agent \in AgentNames
       /\ \E c \in JobIds \ DOMAIN JOBS :
            /\ DOMAIN JOBS' = DOMAIN JOBS \cup {c}
            /\ JOBS'[c] = FullJob(ret'.arg.agent, ret'.arg.prompt,
                                  StrategyName(ret'.arg.agent))
            /\ queue' = Append(queue, c)]_vars

\* C24: when autonomous_chat starts for a job whose chat_history is not empty,
\* the input of its first Runner.run call is exactly the saved chat_history
\* followed by one user message with the literal resume text; the initial
\* prompt is not sent again.
C24_FirstInputOfResumedJob ==
  [][\A w \in Workers : \A j \in DOMAIN JOBS :
       (/\ worker[w].pc = "connect"
        /\ worker[w].job = j
        /\ worker'[w].pc = "run"
        /\ JOBS[j].chat_history # <<>>) =>
         /\ TurnInput(w)' = JOBS[j].chat_history \o <<Msg("user", "resume", 0)>>
         /\ worker'[w].check = 1
         /\ \A k \in (Len(JOBS[j].chat_history) + 1)..Len(TurnInput(w)') :
              TurnInput(w)'[k].content # "first"]_vars

\* A job with a saved history is in the first turn of a resumed
\* autonomous_chat.
C24_Witness ==
  \E w \in Workers :
    /\ worker[w].pc = "run"
    /\ worker[w].check = 1
    /\ worker[w].msg = "resume"
    /\ Len(worker[w].hist) >= 2
    /\ worker[w].hist = JOBS[worker[w].job].chat_history

\* C29: the step in which a worker takes a job with an unmet dependency off
\* the queue starts no autonomous_chat (every worker stays where it was),
\* changes no job's status, depends_on or chat_history, creates exactly one
\* requeue_later task for that job and no other, and calls task_done once;
\* and a requeue_later task that ends its sleep puts that same job at the
\* tail of the queue and changes no job.
C29_UnmetDequeueFrame ==
  [][\A j \in DOMAIN JOBS :
       /\ (Dequeues(j) /\ Unmet(j) # <<>>) =>
            /\ worker' = worker
            /\ JOBS' = JOBS
            /\ delayed' = [delayed EXCEPT ![j] = @ + 1]
            /\ unfinished' = unfinished - 1
       /\ delayed'[j] < delayed[j] =>
            /\ delayed' = [delayed EXCEPT ![j] = @ - 1]
            /\ queue' = Append(queue, j)
            /\ JOBS' = JOBS
            /\ worker' = worker]_vars

\* A job whose dependency ended in error has been handed to requeue_later:
\* the queue is empty, every worker is back in queue.get() and every put has
\* had its task_done.
C29_Witness ==
  /\ queue = <<>>
  /\ unfinished = 0
  /\ \A w \in Workers : worker[w] = Idle
  /\ \E j \in DOMAIN JOBS :
       /\ delayed[j] = 1
       /\ JOBS[j].status = "in_queue"
       /\ Unmet(j) # <<>>

\* C30: when a turn returns and next_turn gives end = false while the job's
\* status is anything other than in_progress, autonomous_chat returns at
\* once: the worker makes no further Runner.run call in that invocation and
\* the job's status stays as it was.
C30_LoopReturnsWhenNotInProgress ==
  [][\A w \in Workers : \A j \in DOMAIN JOBS :
       (/\ worker[w].job = j
        /\ JOBS[j].status # "in_progress"
        /\ \E o \in RunnerOutcomes \ {"raise"} :
             /\ RunnerRun(w, o)
             /\ ~next_turn(o, JOBS[j].status).end) =>
         /\ worker'[w] = Idle
         /\ JOBS'[j].status = JOBS[j].status]_vars

\* The kind of plan the scheduling model draws for a plan of steps.
PlanKind(plan) ==
  IF Len(plan) = 0 THEN "empty"
  ELSE IF \E i \in 1..Len(plan) : ~plan[i].checked THEN "unchecked"
  ELSE "checked"

\* C25: ContinueLastUncheckedStrategy.next_turn decides in this priority
\* order, for every plan and job status: job missing or status not
\* in_progress gives (False, None); else an empty plan gives (False, the
\* "Plan shouldn't be empty" message); else every step checked gives
\* (True, None); else (False, the "Continue with the first step of the plan
\* that is not checked yet" message).  It returns end = True in no other
\* case, and the plan kinds of the scheduling model give the same end.
C25_ContinueLastUncheckedPriority ==
  turn.strategy = "ContinueLastUncheckedStrategy" =>
    LET plan == turn.plan
        out == turn.out
        in_progress == turn.status = "in_progress"
        unchecked == \E i \in 1..Len(plan) : ~plan[i].checked
    IN  /\ ~in_progress => (~out.end /\ out.none)
        /\ (in_progress /\ Len(plan) = 0) =>
             (~out.end /\ ~out.none /\ Len(out.msg) = 1
              /\ out.msg[1].kind = "plan_empty")
        /\ (in_progress /\ Len(plan) > 0 /\ ~unchecked) => (out.end /\ out.none)
        /\ (in_progress /\ Len(plan) > 0 /\ unchecked) =>
             (~out.end /\ ~out.none /\ Len(out.msg) = 1
              /\ out.msg[1].kind = "continue")
        /\ out.end => (in_progress /\ Len(plan) > 0 /\ ~unchecked)
        /\ out.end = next_turn(PlanKind(plan), turn.status).end

\* next_turn was called with a plan whose steps are all checked for a job
\* that had been set in_queue: the status test came first.
C25_Witness ==
  /\ turn.strategy = "ContinueLastUncheckedStrategy"
  /\ turn.status = "in_queue"
  /\ Len(turn.plan) = MaxSteps
  /\ \A i \in 1..Len(turn.plan) : turn.plan[i].checked
  /\ ~turn.out.end

\* The places of plan_dict whose step was not checked and whose name is
\* absent from the plan of this turn.
RemovedUnchecked(prev, plan) ==
  {i \in 1..Len(prev) :
     /\ ~prev[i].step.checked
     /\ \A k \in 1..Len(plan) : StepKey(plan, k) # prev[i].key}
\* The places of a message that hold a corrective sentence.
Correctives(msg) == {k \in 1..Len(msg) : msg[k].kind = "removed"}
\* The corrective sentences of msg name exactly the removed unchecked steps,
\* once each, in the order of plan_dict, before any other sentence.
NamesRemoved(msg, prev, plan) ==
  /\ Cardinality(Correctives(msg)) = Cardinality(RemovedUnchecked(prev, plan))
  /\ Correctives(msg) = 1..Cardinality(Correctives(msg))
  /\ {msg[k].step : k \in Correctives(msg)} =
       {prev[i].key : i \in RemovedUnchecked(prev, plan)}
  /\ \A k1, k2 \in Correctives(msg) : \A i1, i2 \in RemovedUnchecked(prev, plan) :
       (k1 < k2 /\ msg[k1].step = prev[i1].key /\ msg[k2].step = prev[i2].key)
         => i1 < i2

\* C26 as stated: in PlanWatcherStrategy.next_turn for an in_progress job the
\* end flag and the empty / complete / continue sentence are those of
\* ContinueLastUncheckedStrategy, and a returned message holds, before that
\* sentence, one corrective sentence for every step that was unchecked in the
\* previous plan and is absent from this one.
C26_PlanWatcherSameDecisions ==
  (turn.strategy = "PlanWatcherStrategy" /\ turn.status = "in_progress") =>
    LET c == ContinueLastUnchecked_next_turn(turn.plan, turn.status)
        out == turn.out
    IN  /\ out.end = c.end
        /\ out.none = c.none
        /\ ~out.none =>
             /\ NamesRemoved(out.msg, turn.prev, turn.plan)
             /\ Len(out.msg) = Cardinality(Correctives(out.msg)) + 1
             /\ out.msg[Len(out.msg)].kind = c.msg[1].kind

\* C26 amended: the end flag is decided as in ContinueLastUncheckedStrategy
\* and plan_dict becomes the map of this turn's plan; on an empty plan the
\* message is the corrective sentences followed by the "Plan shouldn't be
\* empty" sentence; when every step is checked the result is (True, None),
\* without the corrective sentences; otherwise the message is the corrective
\* sentences alone when there are any, and the "Continue" sentence only when
\* there are none.  For a job that is not in_progress plan_dict is kept.
C26_PlanWatcherDecisions ==
  turn.strategy = "PlanWatcherStrategy" =>
    LET plan == turn.plan
        out == turn.out
        c == ContinueLastUnchecked_next_turn(plan, turn.status)
        n == Cardinality(RemovedUnchecked(turn.prev, plan))
    IN  /\ out.end = c.end
        /\ out.none = c.none
        /\ turn.status # "in_progress" => plan_dict = turn.prev
        /\ turn.status = "in_progress" =>
             /\ DictKeys(plan_dict) = {StepKey(plan, k) : k \in 1..Len(plan)}
             /\ \A i \in 1..Len(plan_dict) : \E k \in 1..Len(plan) :
                  /\ StepKey(plan, k) = plan_dict[i].key
                  /\ plan[k] = plan_dict[i].step
                  /\ \A k2 \in (k + 1)..Len(plan) :
                       StepKey(plan, k2) # plan_dict[i].key
             /\ ~out.none => NamesRemoved(out.msg, turn.prev, plan)
             /\ Len(plan) = 0 =>
                  /\ Len(out.msg) = n + 1
                  /\ out.msg[n + 1].kind = "plan_empty"
             /\ (Len(plan) > 0 /\ ~out.none /\ n > 0) => Len(out.msg) = n
             /\ (Len(plan) > 0 /\ ~out.none /\ n = 0) =>
                  /\ Len(out.msg) = 1
                  /\ out.msg[1].kind = "continue"

\* The plan of this turn dropped an unchecked step of the previous plan and
\* still has an unchecked step: the message is the corrective sentence alone.
C26_Witness ==
  /\ turn.strategy = "PlanWatcherStrategy"
  /\ turn.status = "in_progress"
  /\ RemovedUnchecked(turn.prev, turn.plan) # {}
  /\ \E i \in 1..Len(turn.plan) : ~turn.plan[i].checked
  /\ \A k \in 1..Len(turn.out.msg) : turn.out.msg[k].kind = "removed"
  /\ Len(turn.out.msg) >= 1

\* C40 as stated: a _start_and_wait call that fails because your_job_id is
\* not in the store leaves the job store and the queue exactly as they were:
\* no child job has been created or put on the queue.
C40_NotFoundChangesNothing ==
  [][ret'.kind = "not_found" => (JOBS' = JOBS /\ queue' = queue)]_vars

\* C40 amended: a _start_and_wait call that fails because your_job_id is not
\* in the store has created its child all the same: the store is the old
\* store with the one new child (in_queue, no dependencies, empty history)
\* added and the queue is the old queue with the child at its tail; the
\* queue's unfinished count has grown by one.
C40_NotFoundLeavesOnlyTheChild ==
  [][ret'.kind = "not_found" =>
       /\ ret'.arg \notin DOMAIN JOBS'
       /\ ret'.job \notin DOMAIN JOBS
       /\ JOBS' = JOBS @@ (ret'.job :> Job(<<>>))
       /\ queue' = Append(queue, ret'.job)
       /\ unfinished' = unfinished + 1]_vars

\* A call with an unknown your_job_id has just returned to a running agent:
\* the child it created is the only job on the queue.
C40_Witness ==
  /\ ret.kind = "not_found"
  /\ queue = <<ret.job>>
  /\ JOBS[ret.job] = Job(<<>>)
  /\ unfinished = 2

\* C35: once a job's status is done it never changes again and no worker
\* starts the job again, whatever the workers, the requeue_later tasks and
\* the _start_and_wait calls (with any your_job_id) do.
C35_DoneIsFinal ==
  [][\A j \in DOMAIN JOBS :
       JOBS[j].status = "done" =>
         /\ JOBS'[j].status = "done"
         /\ \A w \in Workers : ~StartsJob(w, j)]_vars

\* C36: a job is never pending pickup more than once: its entries on the
\* queue plus its requeue_later tasks that have not fired yet are at most one,
\* also when _start_and_wait is called several times with the same
\* your_job_id.
C36_PendingAtMostOnce ==
  \A j \in DOMAIN JOBS : Count(queue, j) + delayed[j] <= 1

\* The first user message of job j (job id, initial text, start instruction).
FirstMessage(j) == Msg("user", "first", j)

\* C38: within an autonomous_chat that started from an empty history, the
\* input of every further Runner.run call still holds the first user message,
\* also on the turn after one on which the runner raised.
C38_FirstMessageInEveryInput ==
  [][\A w \in Workers : \A j \in DOMAIN JOBS :
       (/\ worker[w].pc = "run"
        /\ worker[w].job = j
        /\ worker'[w].pc = "run"
        /\ FirstMessage(j) \in Range(TurnInput(w))) =>
         FirstMessage(j) \in Range(TurnInput(w)')]_vars

\* C39: once _start_and_wait has set a job in_queue during a turn, the worker
\* running the job leaves autonomous_chat when the current Runner.run call
\* finishes, whether it returns or raises: it makes no further call.
C39_SuspendedJobStopsAfterCall ==
  [][\A w \in Workers : \A j \in DOMAIN JOBS :
       (/\ worker[w].job = j
        /\ JOBS[j].status = "in_queue"
        /\ \E o \in RunnerOutcomes : RunnerRun(w, o)) =>
         worker'[w] = Idle]_vars

\* await job_queue.join() of run_job_and_wait can return: the job has been
\* submitted and the queue's count of unfinished tasks is zero.
JoinReturns == JOBS # <<>> /\ unfinished = 0

\* C37: when queue.join() returns in the console run, every job submitted so
\* far is done or error: none is in_queue or in_progress, and none is held by
\* a requeue_later task that has not fired yet.
C37_JoinMeansAllFinished ==
  JoinReturns =>
    \A j \in DOMAIN JOBS :
      /\ JOBS[j].status \in {"done", "error"}
      /\ delayed[j] = 0

\* The ids reached from the ids in S through depends_on, in at most k steps.
RECURSIVE DepsWithin(_, _, _)
DepsWithin(store, S, k) ==
  IF k = 0 THEN S
  ELSE DepsWithin(store,
                  S \cup UNION {Range(store[t].depends_on) : t \in S \cap DOMAIN store},
                  k - 1)

\* C34: the dependency relation of the jobs is acyclic in every reachable
\* state: no job depends on itself, directly or through the depends_on of the
\* jobs it depends on.
C34_DependsOnAcyclic ==
  \A t \in DOMAIN JOBS :
    t \notin DepsWithin(JOBS, Range(JOBS[t].depends_on), Cardinality(DOMAIN JOBS))

\* ------------------------------------------------- the output of a turn
\* final_output is an instance of the agent's return_type: a pydantic model,
\* or a dict when the output type is a TypedDict.  Its plan field is missing,
\* an empty list, a list of steps that have no checked attribute, a list with
\* an unchecked step, or a list with every step checked; its summary field is
\* missing or holds a text.
NoSummary == "-"
Summaries == {"s1", "s2"}
OutputTypes == {"model", "dict"}
OutputPlans == {"missing", "empty", "nochecked", "unchecked", "checked"}
FinalOutputs ==
  [type : OutputTypes, plan : OutputPlans, summary : Summaries \cup {NoSummary}]

\* The names of the fields final_output has, in declaration order.
Fields(fo) ==
  (IF fo.plan # "missing" THEN <<"plan">> ELSE <<>>)
    \o (IF fo.summary # NoSummary THEN <<"summary">> ELSE <<>>)

\* What iterating over final_output yields: a pydantic model yields one
\* (name, value) tuple per field, a dict yields its keys.
Iterate(fo) ==
  [i \in DOMAIN Fields(fo) |->
     [kind |-> IF fo.type = "model" THEN "tuple" ELSE "str",
      name |-> Fields(fo)[i]]]

\* `name in final_output`: a pydantic model defines no __contains__, so the
\* test compares the str with each item of the iteration, and a tuple never
\* equals a str; for a dict it is the membership of the key.
contains(name, fo) ==
  \E i \in DOMAIN Iterate(fo) :
    Iterate(fo)[i].kind = "str" /\ Iterate(fo)[i].name = name

\* final_output.<name> does not raise AttributeError.
has_attr(fo, name) ==
  /\ fo.type = "model"
  /\ \E i \in DOMAIN Fields(fo) : Fields(fo)[i] = name

\* ContinueLastUncheckedStrategy.next_turn of chat_patterns.py on a
\* final_output: it reads final_output.plan and step.checked directly.
output_next_turn(fo, status) ==
  IF status # "in_progress"
  THEN [raises |-> FALSE, end |-> FALSE, msg |-> "None"]
  ELSE IF ~has_attr(fo, "plan")
  THEN [raises |-> TRUE, end |-> FALSE, msg |-> "None"]
  ELSE IF fo.plan = "empty"
  THEN [raises |-> FALSE, end |-> FALSE, msg |-> "plan_empty"]
  ELSE IF fo.plan = "nochecked"
  THEN [raises |-> TRUE, end |-> FALSE, msg |-> "None"]
  ELSE IF fo.plan = "checked"
  THEN [raises |-> FALSE, end |-> TRUE, msg |-> "None"]
  ELSE [raises |-> FALSE, end |-> FALSE, msg |-> "continue"]

\* ContinueLastUncheckedStrategy.next_turn of strategies.py: the same
\* decisions with getattr defaults for plan and checked.
strategies_next_turn(fo, status) ==
  IF status # "in_progress"
  THEN [raises |-> FALSE, end |-> FALSE, msg |-> "None"]
  ELSE IF ~has_attr(fo, "plan") \/ fo.plan = "empty"
  THEN [raises |-> FALSE, end |-> FALSE, msg |-> "plan_empty"]
  ELSE IF fo.plan = "checked"
  THEN [raises |-> FALSE, end |-> TRUE, msg |-> "None"]
  ELSE [raises |-> FALSE, end |-> FALSE, msg |-> "continue"]

\* What get_job answers for job j of a store with the given summaries.
get_job_report(store, sums, j) ==
  IF j \notin DOMAIN store
  THEN [found |-> FALSE, status |-> "None", summary |-> NoSummary]
  ELSE IF sums[j] # ""
  THEN [found |-> TRUE, status |-> store[j].status, summary |-> sums[j]]
  ELSE [found |-> TRUE, status |-> store[j].status, summary |-> NoSummary]

get_job_mcp_tool(j) == get_job_report(JOBS, summary, j)

\* One turn of autonomous_chat in which Runner.run returns final_output fo:
\* the history is saved, the summary is copied when the membership test
\* passes, the strategy decides, and an exception of either statement is
\* caught by the except branch of the turn.
RunnerRunOutput(w, fo) ==
  /\ worker[w].pc = "run"
  /\ LET job == worker[w].job
         hist == to_input_list(TurnInput(w))
         copies == contains("summary", fo)
         nt == output_next_turn(fo, JOBS[job].status)
     IN  /\ summary' = IF copies /\ has_attr(fo, "summary")
                       THEN [summary EXCEPT ![job] = fo.summary]
                       ELSE summary
         /\ IF (copies /\ ~has_attr(fo, "summary")) \/ nt.raises
            THEN /\ JOBS' = [JOBS EXCEPT ![job].chat_history = hist]
                 /\ worker' = [worker EXCEPT ![w] = NextCheck(w, hist, "error")]
            ELSE IF nt.end
            THEN /\ JOBS' = [JOBS EXCEPT ![job].chat_history = hist,
                                          ![job].status = "done"]
                 /\ worker' = [worker EXCEPT ![w] = Idle]
            ELSE /\ JOBS' = [JOBS EXCEPT ![job].chat_history = hist]
                 /\ worker' = [worker EXCEPT ![w] =
                      IF JOBS[job].status = "in_queue"
                      THEN Idle
                      ELSE NextCheck(w, hist, nt.msg)]
  /\ unfinished' = IF worker'[w].pc = "get" THEN unfinished - 1 ELSE unfinished
  /\ ret' = NoReturn
  /\ UNCHANGED <<loaderVars, strategyVars, mcpVars>>
  /\ UNCHANGED <<queue, delayed>>

OutputNext ==
  \/ SubmitJob
  \/ \E w \in Workers : ChatWorkerGet(w)
  \/ \E w \in Workers : \E ok \in BOOLEAN : ConnectMcps(w, ok)
  \/ \E w \in Workers : RunnerRun(w, "raise")
  \/ \E w \in Workers : \E fo \in FinalOutputs : RunnerRunOutput(w, fo)

OutputSpec == Init /\ [][OutputNext]_vars

\* C33: after every turn in which Runner.run returned a final_output that
\* has a summary field, the job's summary is that turn's summary value, and
\* get_job for the job reports the status together with that summary.
C33_SummaryCopied ==
  [][\A w \in Workers : \A fo \in FinalOutputs :
       (fo.summary # NoSummary /\ RunnerRunOutput(w, fo))
         => /\ summary'[worker[w].job] = fo.summary
            /\ get_job_report(JOBS', summary', worker[w].job)
                 = [found |-> TRUE,
                    status |-> JOBS'[worker[w].job].status,
                    summary |-> fo.summary]]_vars

\* C31: when the final_output of a turn of an in_progress job has no plan,
\* or steps without checked, next_turn raises nothing and answers end = false
\* with the corrective message of an empty plan (no plan) or of an unchecked
\* plan (steps without checked), and that message is the user message of the
\* job's next turn.
C31_MissingFieldsGetCorrectiveMessage ==
  [][\A w \in Workers : \A fo \in FinalOutputs :
       (/\ fo.plan \in {"missing", "nochecked"}
        /\ worker[w].job \in DOMAIN JOBS
        /\ JOBS[worker[w].job].status = "in_progress"
        /\ RunnerRunOutput(w, fo))
         => LET nt == output_next_turn(fo, JOBS[worker[w].job].status)
                corrective == IF fo.plan = "missing" THEN "plan_empty"
                              ELSE "continue"
            IN  /\ ~nt.raises
                /\ ~nt.end
                /\ nt.msg = corrective
                /\ worker[w].check < MaxTurns
                     => /\ worker'[w].pc = "run"
                        /\ worker'[w].msg = corrective]_vars

\* ---------------------------------------------------------- connect_mcps
MaxServers == 3
MaxRetries == 3

\* One entry of the record of a connect_mcps call: a connect call on a
\* server that returned ("ok") or raised or timed out ("fail"), or a call of
\* asyncio.sleep.
Event(ev, server, attempt) == [ev |-> ev, server |-> server, attempt |-> attempt]

\* connect_mcps(agent, retries = r) is called for an agent with n servers.
McpCall(n, r) ==
  /\ mcp.pc = "idle"
  /\ mcp' = [NoCall EXCEPT !.pc = IF n = 0 THEN "returned" ELSE "connect",
                           !.n = n, !.retries = r,
                           !.server = IF n = 0 THEN 0 ELSE 1,
                           !.attempt = IF n = 0 THEN 0 ELSE 1]
  /\ UNCHANGED <<JOBS, queue, delayed, worker, unfinished, ret>>
  /\ UNCHANGED <<loaderVars, strategyVars, summaryVars>>

\* A connect_mcps that goes on to the next server when the last attempt fails.
McpConnectSwallowsLast(ok) ==
  /\ mcp.pc = "connect"
  /\ LET s == mcp.server
         a == mcp.attempt
         log == Append(mcp.log, Event(IF ok THEN "ok" ELSE "fail", s, a))
     IN  IF ok \/ a = mcp.retries
         THEN mcp' = IF s = mcp.n
                     THEN [mcp EXCEPT !.pc = "returned", !.log = log]
                     ELSE [mcp EXCEPT !.server = s + 1, !.attempt = 1,
                                      !.log = log]
         ELSE mcp' = [mcp EXCEPT !.pc = "sleep",
                                 !.log = Append(log, Event("sleep", s, a))]
  /\ UNCHANGED <<JOBS, queue, delayed, worker, unfinished, ret>>
  /\ UNCHANGED <<loaderVars, strategyVars, summaryVars>>

\* The awaited connect call of the current server and attempt comes back: it
\* returned (ok), or it raised or ran into the 10 s timeout.  On success the
\* inner loop breaks; on the last attempt the exception is re-raised;
\* otherwise asyncio.sleep is called.
McpConnect(ok) ==
  /\ mcp.pc = "connect"
  /\ LET s == mcp.server
         a == mcp.attempt
         log == Append(mcp.log, Event(IF ok THEN "ok" ELSE "fail", s, a))
     IN  IF ok
         THEN mcp' = IF s = mcp.n
                     THEN [mcp EXCEPT !.pc = "returned", !.log = log]
                     ELSE [mcp EXCEPT !.server = s + 1, !.attempt = 1,
                                      !.log = log]
         ELSE IF a = mcp.retries
         THEN mcp' = [mcp EXCEPT !.pc = "raised", !.log = log,
                                 !.error = [server |-> s, attempt |-> a]]
         ELSE mcp' = [mcp EXCEPT !.pc = "sleep",
                                 !.log = Append(log, Event("sleep", s, a))]
  /\ UNCHANGED <<JOBS, queue, delayed, worker, unfinished, ret>>
  /\ UNCHANGED <<loaderVars, strategyVars, summaryVars>>

\* The sleep ends: the next attempt on the same server.
McpWake ==
  /\ mcp.pc = "sleep"
  /\ mcp' = [mcp EXCEPT !.pc = "connect", !.attempt = @ + 1]
  /\ UNCHANGED <<JOBS, queue, delayed, worker, unfinished, ret>>
  /\ UNCHANGED <<loaderVars, strategyVars, summaryVars>>

McpNext ==
  \/ \E n \in 0..MaxServers : \E r \in 1..MaxRetries : McpCall(n, r)
  \/ \E ok \in BOOLEAN : McpConnect(ok)
  \/ McpWake

\* A connect call comes back within its timeout and a sleep ends.
McpFairness ==
  /\ WF_vars(\E ok \in BOOLEAN : McpConnect(ok))
  /\ WF_vars(McpWake)

McpSpec == Init /\ [][McpNext]_vars /\ McpFairness

\* The connect calls made on server s so far.
ConnectCalls(s) ==
  {i \in DOMAIN mcp.log : mcp.log[i].server = s /\ mcp.log[i].ev # "sleep"}

\* The call has ended, by returning or by raising.
McpEnded == mcp.pc \in {"returned", "raised"}

\* The record of the call follows the rules of C32.
McpRules ==
  LET log == mcp.log
      r == mcp.retries
  IN  \* servers in list order, and none after a server that was given up
      /\ \A i, j \in DOMAIN log : i < j => log[i].server <= log[j].server
      /\ \A i \in DOMAIN log : log[i].server \in 1..mcp.n
      \* at most r connect calls per server, numbered 1, 2, ...
      /\ \A s \in 1..MaxServers : Cardinality(ConnectCalls(s)) <= r
      /\ \A i \in DOMAIN log : log[i].attempt \in 1..r
      \* a success is the last call on its server
      /\ \A i, j \in DOMAIN log :
           (i < j /\ log[i].ev = "ok") => log[j].server > log[i].server
      \* a server is only begun after the success of the one before it
      /\ \A j \in DOMAIN log :
           (j > 1 /\ log[j].server # log[j - 1].server)
             => /\ log[j - 1].ev = "ok"
                /\ log[j].server = log[j - 1].server + 1
      /\ (log # <<>> => log[1].server = 1)
      \* one sleep right after each failed attempt but the last one
      /\ \A i \in DOMAIN log :
           (log[i].ev = "fail" /\ log[i].attempt < r)
             => /\ i + 1 \in DOMAIN log
                /\ log[i + 1] = Event("sleep", log[i].server, log[i].attempt)
      /\ \A i \in DOMAIN log :
           (log[i].ev = "fail" /\ log[i].attempt = r)
             => /\ i = Len(log)
                /\ mcp.pc = "raised"
                /\ mcp.error = [server |-> log[i].server, attempt |-> r]
      /\ \A i \in DOMAIN log :
           log[i].ev = "sleep"
             => /\ i > 1
                /\ log[i - 1] = Event("fail", log[i].server, log[i].attempt)
      \* the call raises exactly when the r-th attempt on a server failed,
      \* and returns exactly when every server has connected
      /\ mcp.pc = "raised"
           => /\ log # <<>>
              /\ log[Len(log)] = Event("fail", mcp.error.server, r)
      /\ mcp.pc = "returned"
           => \A s \in 1..mcp.n :
                \E i \in DOMAIN log : log[i].server = s /\ log[i].ev = "ok"

\* C32: connect_mcps connects the servers in list order, calls connect at
\* most r times per server, stops at the first success, sleeps once after
\* each failed attempt except the last, lets the exception of the r-th failed
\* attempt propagate without trying a later server, and always ends.
C32_ConnectMcpsRetries ==
  /\ []McpRules
  /\ (mcp.pc # "idle") ~> McpEnded

\* The second of two servers has failed both of its two attempts after the
\* first one connected at once: one sleep, and the call has raised.
C32_Witness ==
  /\ mcp.pc = "raised"
  /\ mcp.n = 2
  /\ mcp.retries = 2
  /\ mcp.log = <<Event("ok", 1, 1), Event("fail", 2, 1), Event("sleep", 2, 1),
                 Event("fail", 2, 2)>>
====
